---- MODULE Spec2Model ----
(***************************************************************************)
(* ferrum: a Game Boy (DMG-01) emulator.  A model of the CPU step          *)
(* (Cpu::cycle, Cpu::handle_interrupts, Cpu::op_execute), of the memory    *)
(* router (Mmu::read8 / write8 / cycle) and of the timer it drives.        *)
(*                                                                         *)
(* Bytes and words are naturals kept to their width with % 256 and         *)
(* % 65536.  The cartridge image, the boot ROM image and the power-on      *)
(* contents of WRAM/HRAM (randomised by Mmu::new) are inputs: a cell of    *)
(* one of these regions gets its value the first time the program reads    *)
(* it and keeps it until the program writes it.                            *)
(***************************************************************************)
EXTENDS Integers, Naturals, Sequences, FiniteSets, TLC

VARIABLES
    reg,        \* Cpu.reg : Registers (a, f, b, c, d, e, h, l, sp, pc)
    ime,        \* Cpu.ime : interrupt master enable
    halt,       \* Cpu.halt
    cycles,     \* Cpu.cycles
    mem,        \* known cells of cartridge ROM, boot ROM, WRAM and HRAM
    io,         \* Mmu.io : raw I/O registers that were written (others 0x00)
    if_,        \* Mmu.if_ : InterruptFlags (0xFF0F)
    ie,         \* Mmu.ie (0xFFFF)
    timer,      \* Mmu.timer : Timer (registers and the two clocks)
    ppu,        \* Mmu.ppu : the part of Ppu that Ppu::cycle touches
    panicked,   \* the process has aborted in a panic!/todo!
    image,      \* which family of ROM images this run executes
    steps,      \* number of Cpu::cycle calls so far
    writes,     \* number of Mmu::write8 calls made from outside the CPU
    mcycles,    \* number of Mmu::cycle calls so far
    mmu_ticks,  \* history: total ticks handed to Mmu::cycle
    cart,       \* an Mbc1 cartridge (bank_mode, bank, ram_enabled, rom, ram)
    last        \* history: what the latest call did

vars == << reg, ime, halt, cycles, mem, io, if_, ie, timer, ppu, panicked,
           image, steps, writes, mcycles, mmu_ticks, cart, last >>

(***************************************************************************)
(* Bounds of the model.                                                    *)
(***************************************************************************)
MaxSteps == 3
MaxWrites == 2
MaxMmuCycles == 1
MaxMemOps == 3
MaxCartOps == 3
MaxTimerOps == 4
MaxPpuOps == 3
MaxFifoOps == 4
MaxFetcherOps == 6
MaxChunkOps == 3

(***************************************************************************)
(* Bit arithmetic on naturals.                                             *)
(***************************************************************************)
Pow2(n) == IF n = 0 THEN 1 ELSE IF n = 1 THEN 2 ELSE IF n = 2 THEN 4
           ELSE IF n = 3 THEN 8 ELSE IF n = 4 THEN 16 ELSE IF n = 5 THEN 32
           ELSE IF n = 6 THEN 64 ELSE IF n = 7 THEN 128 ELSE 256

Bit(v, i) == (v \div Pow2(i)) % 2

And8(x, y) ==
    Bit(x, 0) * Bit(y, 0) + 2 * Bit(x, 1) * Bit(y, 1)
    + 4 * Bit(x, 2) * Bit(y, 2) + 8 * Bit(x, 3) * Bit(y, 3)
    + 16 * Bit(x, 4) * Bit(y, 4) + 32 * Bit(x, 5) * Bit(y, 5)
    + 64 * Bit(x, 6) * Bit(y, 6) + 128 * Bit(x, 7) * Bit(y, 7)

\* u8::trailing_zeros of a non-zero byte
TrailingZeros(v) == CHOOSE i \in 0..7 : Bit(v, i) = 1 /\ \A j \in 0..(i - 1) : Bit(v, j) = 0

\* v & !(1 << i)
ClearBit(v, i) == v - Bit(v, i) * Pow2(i)

SetBitTo(v, i, on) == ClearBit(v, i) + (IF on THEN Pow2(i) ELSE 0)

Lo(w) == w % 256
Hi(w) == (w \div 256) % 256
Word(lo, hi) == lo + 256 * hi
W16(n) == n % 65536

\* `x as i8` widened to an integer
AsI8(x) == IF x >= 128 THEN x - 256 ELSE x

(***************************************************************************)
(* Registers (src/cpu/registers.rs).                                       *)
(***************************************************************************)
Registers_new ==
    [a |-> 0, f |-> 0, b |-> 0, c |-> 0, d |-> 0, e |-> 0, h |-> 0, l |-> 0,
     sp |-> 0, pc |-> 0]

\* Flags::from_bits_truncate taken as the identity: every bit is kept
FromBitsKept(val) == val

\* Flags::from_bits_truncate: only the four flag bits are kept
FromBitsTruncate(val) == val - (val % 16)

\* Registers::write8
Registers_write8(r, n, val) ==
    IF n = "f" THEN [r EXCEPT !.f = FromBitsTruncate(val)] ELSE [r EXCEPT ![n] = val]

\* Registers::write16
Registers_write16(r, n, val) ==
    CASE n = "AF" -> [r EXCEPT !.a = Hi(val), !.f = FromBitsTruncate(Lo(val))]
      [] n = "BC" -> [r EXCEPT !.b = Hi(val), !.c = Lo(val)]
      [] n = "DE" -> [r EXCEPT !.d = Hi(val), !.e = Lo(val)]
      [] n = "HL" -> [r EXCEPT !.h = Hi(val), !.l = Lo(val)]
      [] n = "SP" -> [r EXCEPT !.sp = val]
      [] n = "PC" -> [r EXCEPT !.pc = val]

zf(r) == Bit(r.f, 7) = 1
cf(r) == Bit(r.f, 4) = 1

set_zf(r, on) == [r EXCEPT !.f = SetBitTo(r.f, 7, on)]
set_nf(r, on) == [r EXCEPT !.f = SetBitTo(r.f, 6, on)]
set_hf(r, on) == [r EXCEPT !.f = SetBitTo(r.f, 5, on)]
set_cf(r, on) == [r EXCEPT !.f = SetBitTo(r.f, 4, on)]

nf(r) == Bit(r.f, 6) = 1
hf(r) == Bit(r.f, 5) = 1

inc_pc(r, inc) == [r EXCEPT !.pc = W16(r.pc + inc)]

\* the stack pointer counterparts of inc_pc, called by stack_push/stack_pop
dec_sp(r, n) == [r EXCEPT !.sp = W16(r.sp + 65536 - n)]
inc_sp(r, n) == [r EXCEPT !.sp = W16(r.sp + n)]

HL(r) == Word(r.l, r.h)
DE(r) == Word(r.e, r.d)
BC(r) == Word(r.c, r.b)

\* a memory region in which no cell is known (or written) yet
NoCells == [x \in {} |-> 0]

(***************************************************************************)
(* Timer (src/timer/mod.rs, src/timer/clock.rs).                           *)
(***************************************************************************)
Timer_new ==
    [div |-> 0, tima |-> 0, tma |-> 0, tac |-> 0,
     div_clock |-> [period |-> 256, n |-> 0],
     tma_clock |-> [period |-> 1024, n |-> 0]]

\* a clock that forgets the cycles left over after the last tick
Clock_cycle_DropsRemainder(clk, c) ==
    [clock |-> [clk EXCEPT !.n = 0], ticks |-> (clk.n + c) \div clk.period]

\* Clock::cycle: the clock after `c` cycles, and the ticks that occurred
Clock_cycle(clk, c) ==
    [clock |-> [clk EXCEPT !.n = (clk.n + c) % clk.period],
     ticks |-> (clk.n + c) \div clk.period]

\* every clock select giving the power-on divisor
TacPeriod_Fixed(v) == 1024

TacPeriod(v) ==
    CASE v % 4 = 0 -> 1024
      [] v % 4 = 1 -> 16
      [] v % 4 = 2 -> 64
      [] v % 4 = 3 -> 256

Timer_get(t, a) ==
    CASE a = 65284 -> t.div
      [] a = 65285 -> t.tima
      [] a = 65286 -> t.tma
      [] a = 65287 -> t.tac

\* a set() whose TAC arm restarts the TIMA clock but leaves TIMA alone
Timer_set_NoReload(t, a, v) ==
    CASE a = 65284 -> [t EXCEPT !.div = 0, !.div_clock.n = 0]
      [] a = 65285 -> [t EXCEPT !.tima = v]
      [] a = 65286 -> [t EXCEPT !.tma = v]
      [] a = 65287 ->
            IF (t.tac % 4) # (v % 4)
            THEN [t EXCEPT !.tma_clock = [period |-> TacPeriod(v), n |-> 0], !.tac = v]
            ELSE [t EXCEPT !.tac = v]

Timer_set(t, a, v) ==
    CASE a = 65284 -> [t EXCEPT !.div = 0, !.div_clock.n = 0]
      [] a = 65285 -> [t EXCEPT !.tima = v]
      [] a = 65286 -> [t EXCEPT !.tma = v]
      [] a = 65287 ->
            IF (t.tac % 4) # (v % 4)
            THEN [t EXCEPT !.tma_clock = [period |-> TacPeriod(v), n |-> 0],
                           !.tima = t.tma, !.tac = v]
            ELSE [t EXCEPT !.tac = v]

\* the loop `for _ in 0..n` of Timer::cycle: TIMA after n increments, and
\* whether one of them overflowed (and so requested the Timer interrupt)
RECURSIVE TimaLoop(_, _, _, _)
TimaLoop(tima, tma, n, fired) ==
    IF n = 0 THEN [tima |-> tima, fired |-> fired]
    ELSE IF (tima + 1) % 256 = 0
         THEN TimaLoop(tma, tma, n - 1, TRUE)
         ELSE TimaLoop((tima + 1) % 256, tma, n - 1, fired)

\* the loop `for _ in 0..n` of Timer::cycle: how many of the n increments
\* overflowed, each of them one call of InterruptFlags::set
RECURSIVE TimaOverflows(_, _, _)
TimaOverflows(tima, tma, n) ==
    IF n = 0 THEN 0
    ELSE IF (tima + 1) % 256 = 0
         THEN 1 + TimaOverflows(tma, tma, n - 1)
         ELSE TimaOverflows((tima + 1) % 256, tma, n - 1)

\* the Timer requests one call of Timer::cycle makes
Timer_requests(t, c) ==
    IF Bit(t.tac, 2) # 0
    THEN TimaOverflows(t.tima, t.tma, Clock_cycle(t.tma_clock, c).ticks)
    ELSE 0

\* the Timer request stored over the register instead of or-ed into it
InterruptFlags_set_timer_Raw(f) == 4

\* InterruptFlags::set(Flags::Timer)
InterruptFlags_set_timer(f) == SetBitTo(f, 2, TRUE)

\* Timer::cycle: the timer and the IF register after `c` cycles
Timer_cycle(t, f, c) ==
    LET dc == Clock_cycle(t.div_clock, c)
        t1 == [t EXCEPT !.div = (t.div + dc.ticks) % 256, !.div_clock = dc.clock]
    IN  IF Bit(t.tac, 2) # 0
        THEN LET tc == Clock_cycle(t1.tma_clock, c)
                 lp == TimaLoop(t1.tima, t1.tma, tc.ticks, FALSE)
             IN  [timer |-> [t1 EXCEPT !.tma_clock = tc.clock, !.tima = lp.tima],
                  if_ |-> IF lp.fired THEN InterruptFlags_set_timer(f) ELSE f]
        ELSE [timer |-> t1, if_ |-> f]

(***************************************************************************)
(* Fifo (src/ppu/fifo.rs): a ring buffer of 16 values.  Each operation     *)
(* gives the FIFO afterwards and whether it panicked.                      *)
(***************************************************************************)
Fifo_new == [data |-> [i \in 0..15 |-> 0], tail |-> 0, head |-> 0, size |-> 0]

\* a push without the test for a full FIFO
Fifo_push_Unchecked(f, value) ==
    [fifo |-> [f EXCEPT !.data[f.head] = value, !.head = (f.head + 1) % 16,
                        !.size = f.size + 1],
     panic |-> FALSE]

Fifo_push(f, value) ==
    IF f.size = 16 THEN [fifo |-> f, panic |-> TRUE]
    ELSE [fifo |-> [f EXCEPT !.data[f.head] = value, !.head = (f.head + 1) % 16,
                             !.size = f.size + 1],
          panic |-> FALSE]

Fifo_pop(f) ==
    IF f.size = 0 THEN [fifo |-> f, value |-> 0, panic |-> TRUE]
    ELSE [fifo |-> [f EXCEPT !.tail = (f.tail + 1) % 16, !.size = f.size - 1],
          value |-> f.data[f.tail], panic |-> FALSE]

Fifo_clear(f) == [f EXCEPT !.tail = 0, !.head = 0, !.size = 0]

(***************************************************************************)
(* Fetcher (src/ppu/fetcher.rs).  It shares the VRAM array with the Ppu.   *)
(***************************************************************************)
Fetcher_new ==
    [fifo |-> Fifo_new, ticks |-> 0, state |-> "ReadTileId", map_addr |-> 0,
     data_addr |-> 0, tile_line |-> 0, tile_index |-> 0, tile_id |-> 0,
     tile_data |-> [i \in 0..7 |-> 0]]

\* the length of the VRAM array
VRAM_SIZE == 8192

\* vram[index] for an index inside the array; the model keys the bytes of
\* VRAM by their address, 0x8000 + index
VramByte(vram, index) ==
    IF 32768 + index \in DOMAIN vram THEN vram[32768 + index] ELSE 0

\* the index read_tile_line uses: the address of the byte, 0x8000 and up
TileLineIndex(f, bit_plane) == 32768 + f.tile_id * 16 + f.tile_line * 2 + bit_plane

\* Fetcher::read_tile_line(bit_plane); `index` is the index it computed
read_tile_line(f, vram, bit_plane) ==
    LET index == TileLineIndex(f, bit_plane)
        pixel_data == VramByte(vram, index)
    IN  IF index >= VRAM_SIZE THEN [fetcher |-> f, panic |-> TRUE, index |-> index]
        ELSE [fetcher |->
                [f EXCEPT !.tile_data =
                   [bit_pos \in 0..7 |->
                      IF bit_plane = 0 THEN Bit(pixel_data, bit_pos)
                      ELSE SetBitTo(f.tile_data[bit_pos], 1,
                                    Bit(f.tile_data[bit_pos], 1) = 1
                                      \/ Bit(pixel_data, bit_pos) = 1)]],
              panic |-> FALSE, index |-> index]

\* the pushes of tile_data[7] down to tile_data[i]
RECURSIVE PushTile(_, _, _)
PushTile(fifo, tile_data, i) ==
    IF i = 8 THEN [fifo |-> fifo, panic |-> FALSE]
    ELSE LET r == PushTile(fifo, tile_data, i + 1)
         IN  IF r.panic THEN r ELSE Fifo_push(r.fifo, tile_data[i])

\* Fetcher::start(map_addr, tile_line)
Fetcher_start(f, map_addr, tile_line) ==
    [f EXCEPT !.map_addr = map_addr, !.tile_line = tile_line, !.tile_index = 0,
              !.state = "ReadTileId", !.fifo = Fifo_clear(f.fifo)]

\* Fetcher::tick(); `index` is the VRAM index it computed, -1 when it
\* computed none.  `tile_index += 1` on 255 overflows the u8.
Fetcher_tick(f, vram) ==
    IF f.ticks + 1 < 2
    THEN [fetcher |-> [f EXCEPT !.ticks = f.ticks + 1], panic |-> FALSE, index |-> -1]
    ELSE LET g == [f EXCEPT !.ticks = 0]
         IN  CASE f.state = "ReadTileId" ->
                    LET index == f.map_addr + f.tile_index
                    IN  IF index >= VRAM_SIZE
                        THEN [fetcher |-> g, panic |-> TRUE, index |-> index]
                        ELSE [fetcher |-> [g EXCEPT !.tile_id = VramByte(vram, index),
                                                    !.state = "ReadTileData0"],
                              panic |-> FALSE, index |-> index]
               [] f.state = "ReadTileData0" ->
                    LET r == read_tile_line(g, vram, 0)
                    IN  IF r.panic THEN r
                        ELSE [r EXCEPT !.fetcher.state = "ReadTileData1"]
               [] f.state = "ReadTileData1" ->
                    LET r == read_tile_line(g, vram, 1)
                    IN  IF r.panic THEN r
                        ELSE [r EXCEPT !.fetcher.state = "PushToFifo"]
               [] OTHER ->
                    IF f.fifo.size <= 8
                    THEN LET r == PushTile(f.fifo, f.tile_data, 0)
                         IN  IF r.panic \/ f.tile_index = 255
                             THEN [fetcher |-> [g EXCEPT !.fifo = r.fifo],
                                   panic |-> TRUE, index |-> -1]
                             ELSE [fetcher |-> [g EXCEPT !.fifo = r.fifo,
                                                         !.tile_index = f.tile_index + 1,
                                                         !.state = "ReadTileId"],
                                   panic |-> FALSE, index |-> -1]
                    ELSE [fetcher |-> g, panic |-> FALSE, index |-> -1]

(***************************************************************************)
(* Ppu (src/ppu/mod.rs): the registers Ppu::cycle and the Memory           *)
(* implementation of Ppu touch.  VRAM and OAM start zeroed; a cell that    *)
(* was never written reads 0x00.                                           *)
(***************************************************************************)
UNDEFINED_READ == 255

Ppu_new ==
    [lcdc |-> 0, stat |-> 0, ldc_on |-> FALSE, ly |-> 0, lyc |-> 0, x |-> 0,
     ticks |-> 0, mode |-> "OamScan", vram |-> NoCells, oam |-> NoCells,
     fetcher |-> Fetcher_new]

\* Stat::update: bit 2 is the LY = LYC flag, bits 1-0 the mode
Stat_update(data, ppu_mode, ppu_ly, ppu_lyc) ==
    LET d2 == SetBitTo(data, 2, ppu_ly = ppu_lyc)
        d1 == SetBitTo(d2, 1, ppu_mode \in {"OamScan", "Drawing"})
    IN  SetBitTo(d1, 0, ppu_mode \in {"VBlank", "Drawing"})

lcd_display_enable(p) == Bit(p.lcdc, 7) # 0

Ppu_read8(p, addr) ==
    CASE addr >= 32768 /\ addr <= 40959 ->
            IF addr \in DOMAIN p.vram THEN p.vram[addr] ELSE 0
      [] addr >= 65024 /\ addr <= 65183 ->
            IF addr \in DOMAIN p.oam THEN p.oam[addr] ELSE 0
      [] addr = 65344 -> p.lcdc
      [] addr = 65348 -> p.ly
      [] OTHER -> UNDEFINED_READ

Ppu_write8(p, addr, val) ==
    CASE addr >= 32768 /\ addr <= 40959 ->
            [p EXCEPT !.vram = (addr :> val) @@ p.vram]
      [] addr >= 65024 /\ addr <= 65183 ->
            [p EXCEPT !.oam = (addr :> val) @@ p.oam]
      [] addr = 65344 -> [p EXCEPT !.lcdc = val]
      [] OTHER -> p

\* Ppu::cycle: with the LCD off it returns 0; with the LCD on it counts a
\* tick, leaves the mode as it is (the arms of the match are comments),
\* updates STAT and then reaches todo!(), which aborts the process
Ppu_cycle(p) ==
    IF ~p.ldc_on /\ ~lcd_display_enable(p)
    THEN [ppu |-> p, ticks |-> 0, panic |-> FALSE]
    ELSE IF p.ldc_on /\ ~lcd_display_enable(p)
    THEN [ppu |-> [p EXCEPT !.ldc_on = FALSE, !.ly = 0, !.x = 0],
          ticks |-> 0, panic |-> FALSE]
    ELSE LET m == IF p.ldc_on THEN p.mode ELSE "OamScan"
         IN  [ppu |-> [p EXCEPT !.ldc_on = TRUE, !.mode = m, !.ticks = p.ticks + 1,
                                !.stat = Stat_update(p.stat, m, p.ly, p.lyc)],
              ticks |-> 0, panic |-> TRUE]

(***************************************************************************)
(* Mmu (src/mmu/mod.rs).  The operators below work on a record `st` of the *)
(* whole machine: reg, ime, halt, mem, io, if_, ie, timer, ppu, panicked.  *)
(***************************************************************************)
InRange(a, lo, hi) == a >= lo /\ a <= hi

\* io[0x50] == 0x00: the boot ROM still overlays 0x0000-0x00FF
BootRomEnabled(st) == IF 80 \in DOMAIN st.io THEN st.io[80] = 0 ELSE TRUE

\* The regions whose contents are inputs: the cartridge (0000-7FFF and
\* A000-BFFF), the boot ROM, WRAM with its echo, and HRAM.
IsInputCell(addr) ==
    \/ InRange(addr, 0, 32767)
    \/ InRange(addr, 40960, 49151)
    \/ InRange(addr, 49152, 65023)
    \/ InRange(addr, 65408, 65534)

\* Cell without the mirror: echo RAM is a region of its own
Cell_NoEcho(st, addr) ==
    IF addr <= 255 /\ BootRomEnabled(st) THEN 65536 + addr ELSE addr

\* The cell of `mem` behind an address: C000-CFFF and E000-EFFF index wram0
\* by addr & 0x0FFF, D000-DFFF and F000-FDFF index wramx by addr & 0x0FFF;
\* boot ROM cells are kept apart from the cartridge cells they overlay.
Cell(st, addr) ==
    IF addr <= 255 /\ BootRomEnabled(st) THEN 65536 + addr
    ELSE IF InRange(addr, 49152, 53247) \/ InRange(addr, 57344, 61439)
         THEN 49152 + (addr % 4096)
    ELSE IF InRange(addr, 53248, 57343) \/ InRange(addr, 61440, 65023)
         THEN 53248 + (addr % 4096)
    ELSE addr

\* every way to give a value from `bytes` to the not yet known input cells
\* behind `addrs`
Fill(st, addrs, bytes) ==
    LET new == {Cell(st, a) : a \in {x \in addrs : IsInputCell(x)}} \ DOMAIN st.mem
    IN  {[st EXCEPT !.mem = f @@ st.mem] : f \in [new -> bytes]}

Known(st, addr) == IsInputCell(addr) => Cell(st, addr) \in DOMAIN st.mem

IsSpecialIo(addr) ==
    addr = 65295 \/ InRange(addr, 65284, 65287) \/ InRange(addr, 65344, 65355)

\* Mmu::read8 with the prohibited range FEA0-FEFF reading as open bus
Mmu_read8_OpenBus(st, addr) ==
    CASE IsInputCell(addr) -> st.mem[Cell(st, addr)]
      [] InRange(addr, 32768, 40959) -> Ppu_read8(st.ppu, addr)
      [] InRange(addr, 65024, 65183) -> Ppu_read8(st.ppu, addr)
      [] addr = 65295 -> st.if_
      [] InRange(addr, 65284, 65287) -> Timer_get(st.timer, addr)
      [] InRange(addr, 65344, 65355) -> Ppu_read8(st.ppu, addr)
      [] InRange(addr, 65280, 65407) /\ ~IsSpecialIo(addr) ->
            IF (addr - 65280) \in DOMAIN st.io THEN st.io[addr - 65280] ELSE 0
      [] addr = 65535 -> st.ie
      [] OTHER -> UNDEFINED_READ

Mmu_read8(st, addr) ==
    CASE IsInputCell(addr) -> st.mem[Cell(st, addr)]
      [] InRange(addr, 32768, 40959) -> Ppu_read8(st.ppu, addr)
      [] InRange(addr, 65024, 65183) -> Ppu_read8(st.ppu, addr)
      [] addr = 65295 -> st.if_
      [] InRange(addr, 65284, 65287) -> Timer_get(st.timer, addr)
      [] InRange(addr, 65344, 65355) -> Ppu_read8(st.ppu, addr)
      [] InRange(addr, 65280, 65407) /\ ~IsSpecialIo(addr) ->
            IF (addr - 65280) \in DOMAIN st.io THEN st.io[addr - 65280] ELSE 0
      [] addr = 65535 -> st.ie
      [] OTHER -> 0

\* the cartridge is ROM only: RomOnly::write8 ignores the write
Mmu_write8(st, addr, val) ==
    CASE InRange(addr, 0, 32767) -> st
      [] InRange(addr, 32768, 40959) -> [st EXCEPT !.ppu = Ppu_write8(st.ppu, addr, val)]
      [] InRange(addr, 40960, 49151) -> st
      [] InRange(addr, 49152, 65023) -> [st EXCEPT !.mem = (Cell(st, addr) :> val) @@ st.mem]
      [] InRange(addr, 65024, 65183) -> [st EXCEPT !.ppu = Ppu_write8(st.ppu, addr, val)]
      [] addr = 65295 -> [st EXCEPT !.if_ = val]
      [] InRange(addr, 65284, 65287) -> [st EXCEPT !.timer = Timer_set(st.timer, addr, val)]
      [] InRange(addr, 65344, 65355) -> [st EXCEPT !.ppu = Ppu_write8(st.ppu, addr, val)]
      [] InRange(addr, 65280, 65407) /\ ~IsSpecialIo(addr) ->
            [st EXCEPT !.io = ((addr - 65280) :> val) @@ st.io]
      [] InRange(addr, 65408, 65534) -> [st EXCEPT !.mem = (addr :> val) @@ st.mem]
      [] addr = 65535 -> [st EXCEPT !.ie = val]
      [] OTHER -> st

Mmu_read16(st, addr) == Word(Mmu_read8(st, addr), Mmu_read8(st, W16(addr + 1)))

\* Mmu::write16 storing the high byte first
Mmu_write16_BigEndian(st, addr, val) ==
    Mmu_write8(Mmu_write8(st, addr, Hi(val)), W16(addr + 1), Lo(val))

Mmu_write16(st, addr, val) ==
    Mmu_write8(Mmu_write8(st, addr, Lo(val)), W16(addr + 1), Hi(val))

\* Mmu::cycle: the timer, then the PPU; returns cpu_ticks + gpu_ticks
Mmu_cycle(st, ticks) ==
    LET tm == Timer_cycle(st.timer, st.if_, ticks)
        pp == Ppu_cycle(st.ppu)
    IN  [st |-> [st EXCEPT !.timer = tm.timer, !.if_ = tm.if_, !.ppu = pp.ppu,
                           !.panicked = pp.panic],
         ticks |-> ticks + pp.ticks]

(***************************************************************************)
(* Mbc1 (src/cartridge/mbc1.rs).  `rom` and `ram` are the vectors handed   *)
(* to Mbc1::new; their bytes are inputs, known once they are read or       *)
(* written, and rom_len and ram_len are their lengths.  Indexing a vector  *)
(* at or past its length panics.                                           *)
(***************************************************************************)
\* the largest ROM and RAM an MBC1 addresses: 2 MiB and 32 KiB
ROM_2MB == 2097152
RAM_32KB == 32768

Mbc1_new(rom_len, ram_len) ==
    [mbc |-> "Mbc1", bank_mode |-> "Rom", bank |-> 1, ram_enabled |-> FALSE,
     rom |-> NoCells, ram |-> NoCells, rom_len |-> rom_len, ram_len |-> ram_len]

\* the upper bits lost: 0 where the code keeps bank & 0x60
BankHigh_Dropped(bank) == 0

\* bank & 0x60
BankHigh(bank) == ((bank \div 32) % 4) * 32

rom_bank(c) == IF c.bank_mode = "Rom" THEN c.bank % 128 ELSE c.bank % 32

ram_bank(c) == IF c.bank_mode = "Rom" THEN 0 ELSE BankHigh(c.bank) \div 32

\* the index into rom or ram behind a cartridge address
RomIndex(c, addr) ==
    IF addr <= 16383 THEN addr ELSE rom_bank(c) * 16384 + (addr - 16384)

RamIndex(c, addr) == ram_bank(c) * 8192 + (addr - 40960)

\* what a read of A000-BFFF returns while the RAM is disabled
RamDisabledRead == 0

\* the index of self.rom[..] or self.ram[..] in read8 is out of bounds
Mbc1_read8_faults(c, addr) ==
    CASE InRange(addr, 0, 32767) -> RomIndex(c, addr) >= c.rom_len
      [] InRange(addr, 40960, 49151) -> c.ram_enabled /\ RamIndex(c, addr) >= c.ram_len
      [] OTHER -> FALSE

Mbc1_read8(c, addr) ==
    CASE InRange(addr, 0, 32767) -> c.rom[RomIndex(c, addr)]
      [] InRange(addr, 40960, 49151) ->
            IF c.ram_enabled THEN c.ram[RamIndex(c, addr)] ELSE RamDisabledRead
      [] OTHER -> 0

\* val & 0x0f == 0x0a
RamEnableValue(val) == val % 16 = 10

\* the low five bits stored without the translation of 0 to 1
RomBankLow_Raw(val) == val % 32

\* the low five bits stored by a write to 2000-3FFF
RomBankLow(val) == IF val % 32 = 0 THEN 1 ELSE val % 32

\* Mbc1::write8: the cartridge afterwards, and whether the write panicked
Mbc1_write8(c, addr, val) ==
    CASE InRange(addr, 0, 8191) ->
            [cart |-> [c EXCEPT !.ram_enabled = RamEnableValue(val)], panic |-> FALSE]
      [] InRange(addr, 8192, 16383) ->
            [cart |-> [c EXCEPT !.bank = BankHigh(c.bank) + RomBankLow(val)],
             panic |-> FALSE]
      [] InRange(addr, 16384, 24575) ->
            [cart |-> [c EXCEPT !.bank = (c.bank - BankHigh(c.bank)) + (val % 4) * 32],
             panic |-> FALSE]
      [] InRange(addr, 24576, 32767) ->
            IF val = 0 THEN [cart |-> [c EXCEPT !.bank_mode = "Rom"], panic |-> FALSE]
            ELSE IF val = 1 THEN [cart |-> [c EXCEPT !.bank_mode = "Ram"], panic |-> FALSE]
            ELSE [cart |-> c, panic |-> TRUE]
      [] InRange(addr, 40960, 49151) ->
            IF c.ram_enabled /\ RamIndex(c, addr) >= c.ram_len
            THEN [cart |-> c, panic |-> TRUE]
            ELSE IF c.ram_enabled
            THEN [cart |-> [c EXCEPT !.ram = (RamIndex(c, addr) :> val) @@ c.ram],
                  panic |-> FALSE]
            ELSE [cart |-> c, panic |-> FALSE]
      [] OTHER -> [cart |-> c, panic |-> FALSE]

Mbc1_read16(c, addr) == Word(Mbc1_read8(c, addr), Mbc1_read8(c, W16(addr + 1)))

\* write8(addr, lo) then write8(addr + 1, hi)
Mbc1_write16(c, addr, val) ==
    LET w == Mbc1_write8(c, addr, Lo(val))
    IN  IF w.panic THEN w ELSE Mbc1_write8(w.cart, W16(addr + 1), Hi(val))

(***************************************************************************)
(* RomOnly (src/cartridge/mbc.rs) and the Cartridge trait object the Mmu   *)
(* holds, which is one or the other.                                       *)
(***************************************************************************)
RomOnly_new(rom_len) == [mbc |-> "RomOnly", rom |-> NoCells, rom_len |-> rom_len]

\* self.rom[addr as usize] is out of bounds
RomOnly_read8_faults(c, addr) == addr >= c.rom_len

RomOnly_read8(c, addr) == c.rom[addr]

\* a write8 that stores into the rom vector
RomOnly_write8_Stores(c, addr, val) ==
    [cart |-> [c EXCEPT !.rom = (addr :> val) @@ c.rom], panic |-> FALSE]

RomOnly_write8(c, addr, val) == [cart |-> c, panic |-> FALSE]

RomOnly_write16(c, addr, val) == [cart |-> c, panic |-> FALSE]

Cartridge_read8_faults(c, addr) ==
    IF c.mbc = "RomOnly" THEN RomOnly_read8_faults(c, addr) ELSE Mbc1_read8_faults(c, addr)

Cartridge_read8(c, addr) ==
    IF c.mbc = "RomOnly" THEN RomOnly_read8(c, addr) ELSE Mbc1_read8(c, addr)

Cartridge_write8(c, addr, val) ==
    IF c.mbc = "RomOnly" THEN RomOnly_write8(c, addr, val) ELSE Mbc1_write8(c, addr, val)

Cartridge_write16(c, addr, val) ==
    IF c.mbc = "RomOnly" THEN RomOnly_write16(c, addr, val) ELSE Mbc1_write16(c, addr, val)

(***************************************************************************)
(* The opcode table (src/cpu/opcodes.rs): length in bytes and duration in  *)
(* T-states.  CPU_OP_CODES lists 0x00-0x03; op_execute (execute.rs) looks  *)
(* every opcode up in the table, so the rows of the other opcodes that the *)
(* model executes are supplied by OtherOpCodes with their documented       *)
(* length and duration.                                                    *)
(***************************************************************************)
CPU_OP_CODES(op) ==
    CASE op = 0 -> [length |-> 1, cycles |-> 4]       \* NOP
      [] op = 1 -> [length |-> 3, cycles |-> 12]      \* LD BC, d16
      [] op = 2 -> [length |-> 1, cycles |-> 8]       \* LD (BC), A
      [] op = 3 -> [length |-> 1, cycles |-> 8]       \* INC BC

JpOps == {194, 202, 210, 218}       \* 0xC2 0xCA 0xD2 0xDA  JP NZ/Z/NC/C, a16
JrOps == {32, 40, 48, 56}           \* 0x20 0x28 0x30 0x38  JR NZ/Z/NC/C, r8
CallOps == {196, 204, 212, 220}     \* 0xC4 0xCC 0xD4 0xDC  CALL NZ/Z/NC/C, a16
RetOps == {192, 200, 208, 216}      \* 0xC0 0xC8 0xD0 0xD8  RET NZ/Z/NC/C

OtherOpCodes(op) ==
    CASE op = 18 -> [length |-> 1, cycles |-> 8]      \* 0x12 LD (DE), A
      [] op = 52 -> [length |-> 1, cycles |-> 12]     \* 0x34 INC (HL)
      [] op = 118 -> [length |-> 1, cycles |-> 4]     \* 0x76 HALT
      [] op = 243 -> [length |-> 1, cycles |-> 4]     \* 0xF3 DI
      [] op = 251 -> [length |-> 1, cycles |-> 4]     \* 0xFB EI
      [] op \in JpOps -> [length |-> 3, cycles |-> 16]
      [] op \in JrOps -> [length |-> 2, cycles |-> 12]
      [] op \in CallOps -> [length |-> 3, cycles |-> 24]
      [] op \in RetOps -> [length |-> 1, cycles |-> 20]
      [] op = 205 -> [length |-> 3, cycles |-> 24]    \* 0xCD CALL a16
      [] op = 201 -> [length |-> 1, cycles |-> 16]    \* 0xC9 RET
      [] op = 217 -> [length |-> 1, cycles |-> 16]    \* 0xD9 RETI

OPCODES_MAP(op) == IF op \in 0..3 THEN CPU_OP_CODES(op) ELSE OtherOpCodes(op)

\* the opcodes whose execution the model covers
ModelledOps ==
    {0, 1, 18, 52, 118, 243, 251, 205, 201, 217}
      \cup JpOps \cup JrOps \cup CallOps \cup RetOps

(***************************************************************************)
(* Cpu helpers (src/cpu/mod.rs, src/cpu/execute.rs).                       *)
(***************************************************************************)
\* Cpu::fetch: the byte at PC; PC is left where it is
fetch(st) == Mmu_read8(st, st.reg.pc)

imm8(st) ==
    [val |-> Mmu_read8(st, st.reg.pc), st |-> [st EXCEPT !.reg = inc_pc(st.reg, 1)]]

imm16(st) ==
    [val |-> Mmu_read16(st, st.reg.pc), st |-> [st EXCEPT !.reg = inc_pc(st.reg, 2)]]

stack_push(st, val) ==
    LET s1 == [st EXCEPT !.reg = dec_sp(st.reg, 2)]
    IN  Mmu_write16(s1, s1.reg.sp, val)

stack_pop(st) ==
    [val |-> Mmu_read16(st, st.reg.sp), st |-> [st EXCEPT !.reg = inc_sp(st.reg, 2)]]

\* the condition tested by a conditional jump, call or return
Cond(op, r) ==
    CASE op \in {194, 32, 196, 192} -> ~zf(r)
      [] op \in {202, 40, 204, 200} -> zf(r)
      [] op \in {210, 48, 212, 208} -> ~cf(r)
      [] op \in {218, 56, 220, 216} -> cf(r)

\* JP cc, a16
op_jp_cc(st, op) ==
    LET im == imm16(st)
    IN  IF Cond(op, st.reg)
        THEN [st |-> [im.st EXCEPT !.reg.pc = im.val], cycle |-> 16, taken |-> TRUE]
        ELSE [st |-> im.st, cycle |-> 12, taken |-> FALSE]

\* JR cc, r8
op_jr_cc(st, op) ==
    LET im == imm8(st)
        addr == W16(im.st.reg.pc + 65536 + AsI8(im.val))
    IN  IF Cond(op, st.reg)
        THEN [st |-> [im.st EXCEPT !.reg.pc = addr], cycle |-> 12, taken |-> TRUE]
        ELSE [st |-> im.st, cycle |-> 8, taken |-> FALSE]

\* CALL cc, a16
op_call_cc(st, op) ==
    LET im == imm16(st)
        pc == im.st.reg.pc
    IN  IF Cond(op, st.reg)
        THEN [st |-> [stack_push(im.st, pc) EXCEPT !.reg.pc = im.val],
              cycle |-> 24, taken |-> TRUE]
        ELSE [st |-> im.st, cycle |-> 12, taken |-> FALSE]

\* RET cc
op_ret_cc(st, op) ==
    IF Cond(op, st.reg)
    THEN LET pp == stack_pop(st)
         IN  [st |-> [pp.st EXCEPT !.reg.pc = pp.val], cycle |-> 20, taken |-> TRUE]
    ELSE [st |-> st, cycle |-> 8, taken |-> FALSE]

\* 0xCD CALL a16
op_call(st, cycle) ==
    LET im == imm16(st)
        pc == im.st.reg.pc
    IN  [st |-> [stack_push(im.st, pc) EXCEPT !.reg.pc = im.val],
         cycle |-> cycle, taken |-> TRUE]

\* 0xC9 RET
op_ret(st, cycle) ==
    LET pp == stack_pop(st)
    IN  [st |-> [pp.st EXCEPT !.reg.pc = pp.val], cycle |-> cycle, taken |-> TRUE]

\* 0xD9 RETI
op_reti(st, cycle) ==
    LET pp == stack_pop(st)
    IN  [st |-> [pp.st EXCEPT !.reg.pc = pp.val, !.ime = TRUE],
         cycle |-> cycle, taken |-> TRUE]

\* 0x01 LD BC, d16
op_ld_bc_d16(st) ==
    LET im == imm16(st)
    IN  [im.st EXCEPT !.reg.b = Hi(im.val), !.reg.c = Lo(im.val)]

\* 0x34 INC (HL)
op_inc_hl(st) ==
    LET addr == HL(st.reg)
        val == Mmu_read8(st, addr)
        result == (val + 1) % 256
        r == set_hf(set_nf(set_zf(st.reg, result = 0), FALSE), (val % 16) + 1 > 15)
    IN  Mmu_write8([st EXCEPT !.reg = r], addr, result)

\* the addresses op_execute reads for `op`, besides the registers
ReadSet(st, op) ==
    CASE op = 1 \/ op = 205 \/ op \in JpOps \/ op \in CallOps ->
            {st.reg.pc, W16(st.reg.pc + 1)}
      [] op \in {201, 217} -> {st.reg.sp, W16(st.reg.sp + 1)}
      [] op \in JrOps -> {st.reg.pc}
      [] op \in RetOps ->
            IF Cond(op, st.reg) THEN {st.reg.sp, W16(st.reg.sp + 1)} ELSE {}
      [] op = 52 -> {HL(st.reg)}
      [] OTHER -> {}

\* Cpu::op_execute: the machine after the instruction, the length Cpu::cycle
\* adds to PC, and the cycles returned (jmp_cycles for a jump, else the
\* table's)
op_execute(st, op) ==
    LET opcode == OPCODES_MAP(op)
        plain(s) == [st |-> s, len |-> opcode.length, cycle |-> opcode.cycles,
                     taken |-> FALSE]
        jump(j) == [st |-> j.st, len |-> opcode.length, cycle |-> j.cycle,
                    taken |-> j.taken]
    IN  CASE op = 0 -> plain(st)
          [] op = 118 -> plain([st EXCEPT !.halt = TRUE])
          [] op = 243 -> plain([st EXCEPT !.ime = FALSE])
          [] op = 251 -> plain([st EXCEPT !.ime = TRUE])
          [] op = 1 -> plain(op_ld_bc_d16(st))
          [] op = 2 -> plain(Mmu_write8(st, BC(st.reg), st.reg.a))
          [] op = 3 -> plain([st EXCEPT !.reg.b = Hi(W16(BC(st.reg) + 1)),
                                        !.reg.c = Lo(W16(BC(st.reg) + 1))])
          [] op = 18 -> plain(Mmu_write8(st, DE(st.reg), st.reg.a))
          [] op = 52 -> plain(op_inc_hl(st))
          [] op \in JpOps -> jump(op_jp_cc(st, op))
          [] op \in JrOps -> jump(op_jr_cc(st, op))
          [] op \in CallOps -> jump(op_call_cc(st, op))
          [] op \in RetOps -> jump(op_ret_cc(st, op))
          [] op = 205 -> jump(op_call(st, opcode.cycles))
          [] op = 201 -> jump(op_ret(st, opcode.cycles))
          [] op = 217 -> jump(op_reti(st, opcode.cycles))

\* the vector of interrupt `i` (the match in handle_interrupts)
InterruptVector(i) ==
    CASE i = 0 -> 64 [] i = 1 -> 72 [] i = 2 -> 80 [] i = 3 -> 88 [] i = 4 -> 96

\* what handle_interrupts returns when it services an interrupt
InterruptCycles == 4

\* handle_interrupts without its tests of IME
handle_interrupts_IgnoresIme(st) ==
    LET none == [st |-> st, cycles |-> 0, serviced |-> FALSE, bit |-> 0]
        ie_ == Mmu_read8(st, 65535)
        ifl == Mmu_read8(st, 65295)
    IN  IF And8(ie_, ifl) = 0 THEN none
        ELSE LET s1 == [st EXCEPT !.ime = FALSE, !.halt = FALSE]
                 s2 == stack_push(s1, s1.reg.pc)
                 i == TrailingZeros(And8(ifl, ie_))
                 s3 == Mmu_write8(s2, 65295, ClearBit(ifl, i))
             IN  IF i <= 4
                 THEN [st |-> [s3 EXCEPT !.reg.pc = InterruptVector(i)],
                       cycles |-> InterruptCycles, serviced |-> TRUE, bit |-> i]
                 ELSE [st |-> [s3 EXCEPT !.panicked = TRUE],
                       cycles |-> 0, serviced |-> FALSE, bit |-> i]

\* Cpu::handle_interrupts: the machine afterwards, the cycles returned,
\* whether an interrupt was taken and which
handle_interrupts(st) ==
    LET none == [st |-> st, cycles |-> 0, serviced |-> FALSE, bit |-> 0]
        ie_ == Mmu_read8(st, 65535)
        ifl == Mmu_read8(st, 65295)
    IN  IF st.halt /\ ~st.ime THEN none
        ELSE IF ~st.ime THEN none
        ELSE IF ie_ = 0 THEN none
        ELSE IF ifl = 0 THEN none
        ELSE IF And8(ie_, ifl) = 0 THEN none
        ELSE LET s1 == [st EXCEPT !.ime = FALSE, !.halt = FALSE]
                 s2 == stack_push(s1, s1.reg.pc)
                 i == TrailingZeros(And8(ifl, ie_))
                 s3 == Mmu_write8(s2, 65295, ClearBit(ifl, i))
             IN  IF i <= 4
                 THEN [st |-> [s3 EXCEPT !.reg.pc = InterruptVector(i)],
                       cycles |-> InterruptCycles, serviced |-> TRUE, bit |-> i]
                 ELSE [st |-> [s3 EXCEPT !.panicked = TRUE],
                       cycles |-> 0, serviced |-> FALSE, bit |-> i]

(***************************************************************************)
(* The inputs of a run.  A run executes one family of ROM images, each     *)
(* over a small alphabet of opcodes; operand, stack and data bytes come    *)
(* from DataBytes.  (Every byte that can be fetched is a modelled opcode.) *)
(***************************************************************************)
Images == {"int", "ld", "jp", "jr", "call", "ret"}

FetchBytes(img) ==
    CASE img = "int" -> {118, 243, 251}          \* HALT DI EI
      [] img = "ld" -> {0, 1, 18, 52}            \* NOP, LD BC,d16, LD (DE),A, INC (HL)
      [] img = "jp" -> JpOps
      [] img = "jr" -> JrOps
      [] img = "call" -> CallOps
      [] img = "ret" -> RetOps
      [] img = "reti" -> {0, 251, 217}             \* NOP EI RETI
      [] img = "callret" -> {205, 201}             \* CALL a16, RET

DataBytes == {1, 52}                             \* 0x01 0x34

\* the registers the model writes from outside the CPU: IF and IE
WriteAddrs == {65295, 65535}

WriteVals(img) ==
    IF img = "int" THEN {3, 20, 24, 224}         \* 0x03 0x14 0x18 0xE0
    ELSE IF img = "reti" THEN {3, 4}
    ELSE {}

\* the tick counts handed to Mmu::cycle
TickVals == {256}

(***************************************************************************)
(* The machine as one record, and the history record of Cpu::cycle.        *)
(***************************************************************************)
Machine ==
    [reg |-> reg, ime |-> ime, halt |-> halt, mem |-> mem, io |-> io,
     if_ |-> if_, ie |-> ie, timer |-> timer, ppu |-> ppu, panicked |-> panicked]

NoCall ==
    [call |-> "none",
     pc0 |-> 0, sp0 |-> 0, f0 |-> 0,       \* PC, SP and F when cycle() was called
     halt0 |-> FALSE, ime0 |-> FALSE,      \* halt and IME when cycle() was called
     ie0 |-> 0, if0 |-> 0,                 \* IE and IF when cycle() was called
     serviced |-> FALSE, bit |-> 0,        \* handle_interrupts took interrupt `bit`
     int_cycles |-> 0,                     \* what handle_interrupts returned
     int_pc |-> 0, int_sp |-> 0,           \* PC, SP, IF, IME when it returned
     int_if |-> 0, int_ime |-> FALSE,
     int_top |-> 0,                        \* the word on top of the stack then
     fetched |-> FALSE, op |-> 0,          \* an opcode was fetched and executed
     fetch_pc |-> 0,                       \* the address it was fetched from
     taken |-> FALSE,                      \* a conditional jump was taken
     len |-> 0, op_cycles |-> 0,           \* what op_execute returned
     consumed |-> 0]                       \* cycles this call added to Cpu.cycles

max_cycles == 4194304

(***************************************************************************)
(* Cpu::power_on over Mmu::new.                                            *)
(***************************************************************************)
Init ==
    /\ reg = Registers_new
    /\ ime = TRUE
    /\ halt = FALSE
    /\ cycles = 0
    /\ mem = NoCells
    /\ io = NoCells
    /\ if_ = 0
    /\ ie = 0
    /\ timer = Timer_new
    /\ ppu = Ppu_new
    /\ panicked = FALSE
    /\ image \in Images
    /\ steps = 0
    /\ writes = 0
    /\ mcycles = 0
    /\ mmu_ticks = 0
    /\ cart = Mbc1_new(ROM_2MB, RAM_32KB)
    /\ last = NoCall

\* Cpu::test_set_boot_regs, called right after power-on when the boot ROM
\* is skipped
TestSetBootRegs ==
    /\ ~panicked /\ steps = 0 /\ writes = 0 /\ mcycles = 0
    /\ reg.pc = 0
    /\ reg' = [a |-> 1, f |-> FromBitsTruncate(176), b |-> 0, c |-> 19, d |-> 0,
               e |-> 216, h |-> 1, l |-> 77, sp |-> 65534, pc |-> 256]
    /\ UNCHANGED << ime, halt, cycles, mem, io, if_, ie, timer, ppu, panicked,
                    image, steps, writes, mcycles, mmu_ticks, cart, last >>

\* the variables of the machine after a call that left it in `st`
Install(st) ==
    /\ reg' = st.reg
    /\ ime' = st.ime
    /\ halt' = st.halt
    /\ mem' = st.mem
    /\ io' = st.io
    /\ if_' = st.if_
    /\ ie' = st.ie
    /\ timer' = st.timer
    /\ ppu' = st.ppu
    /\ panicked' = st.panicked

\* a store to IF or IE through Mmu::write8
Write8 ==
    /\ ~panicked /\ writes < MaxWrites
    /\ \E addr \in WriteAddrs, val \in WriteVals(image) :
          Install(Mmu_write8(Machine, addr, val))
    /\ writes' = writes + 1
    /\ UNCHANGED << cycles, image, steps, mcycles, mmu_ticks, cart, last >>

\* Mmu::cycle(ticks)
MmuCycle ==
    /\ ~panicked /\ mcycles < MaxMmuCycles
    /\ \E ticks \in TickVals :
          /\ Install(Mmu_cycle(Machine, ticks).st)
          /\ mmu_ticks' = mmu_ticks + ticks
    /\ mcycles' = mcycles + 1
    /\ UNCHANGED << cycles, image, steps, writes, cart, last >>

\* the tail of Cpu::cycle: cycles is reset once it exceeds max_cycles
AddCycles(c, n) == IF c + n > max_cycles THEN 0 ELSE c + n

\* Cpu::cycle without its halt test: it fetches whatever the halt flag is
HaltedIgnored(st) == FALSE

\* the test `if !self.halt` of Cpu::cycle, made after handle_interrupts
Halted(st) == st.halt

\* Cpu::cycle
CpuCycle ==
    /\ ~panicked /\ steps < MaxSteps
    /\ LET hi == handle_interrupts(Machine)
           entry == [NoCall EXCEPT
                       !.call = "cycle", !.pc0 = reg.pc, !.sp0 = reg.sp, !.f0 = reg.f,
                       !.halt0 = halt, !.ime0 = ime, !.ie0 = ie, !.if0 = if_,
                       !.serviced = hi.serviced, !.bit = hi.bit,
                       !.int_cycles = hi.cycles, !.int_pc = hi.st.reg.pc,
                       !.int_sp = hi.st.reg.sp, !.int_if = hi.st.if_,
                       !.int_ime = hi.st.ime, !.consumed = hi.cycles,
                       !.int_top = IF hi.serviced
                                   THEN Mmu_read16(hi.st, hi.st.reg.sp) ELSE 0]
       IN  IF hi.st.panicked \/ Halted(hi.st)
           THEN /\ Install(hi.st)
                /\ cycles' = AddCycles(cycles, hi.cycles)
                /\ last' = entry
           ELSE \E s1 \in Fill(hi.st, {hi.st.reg.pc}, FetchBytes(image)) :
                  LET op == fetch(s1)
                  IN  /\ op \in ModelledOps
                      /\ \E s2 \in Fill(s1, ReadSet(s1, op), DataBytes) :
                            LET ex == op_execute(s2, op)
                            IN  /\ Install([ex.st EXCEPT !.reg = inc_pc(ex.st.reg, ex.len)])
                                /\ cycles' = AddCycles(cycles + hi.cycles, ex.cycle)
                                /\ last' = [entry EXCEPT
                                              !.fetched = TRUE, !.op = op,
                                              !.fetch_pc = hi.st.reg.pc,
                                              !.taken = ex.taken, !.len = ex.len,
                                              !.op_cycles = ex.cycle,
                                              !.consumed = hi.cycles + ex.cycle]
    /\ steps' = steps + 1
    /\ UNCHANGED << image, writes, mcycles, mmu_ticks, cart >>

Next == TestSetBootRegs \/ Write8 \/ MmuCycle \/ CpuCycle

Spec == Init /\ [][Next]_vars

(***************************************************************************)
(* The CPU after power_on and test_set_boot_regs (PC = 0x0100, SP =        *)
(* 0xFFFE), running an image of NOP, EI and RETI with stores to IF and IE, *)
(* or an image of CALL a16 and RET.                                        *)
(***************************************************************************)
StackImages == {"reti", "callret"}

InitStack ==
    /\ reg = [a |-> 1, f |-> FromBitsTruncate(176), b |-> 0, c |-> 19, d |-> 0,
              e |-> 216, h |-> 1, l |-> 77, sp |-> 65534, pc |-> 256]
    /\ ime = TRUE
    /\ halt = FALSE
    /\ cycles = 0
    /\ mem = NoCells
    /\ io = NoCells
    /\ if_ = 0
    /\ ie = 0
    /\ timer = Timer_new
    /\ ppu = Ppu_new
    /\ panicked = FALSE
    /\ image \in StackImages
    /\ steps = 0
    /\ writes = 0
    /\ mcycles = 0
    /\ mmu_ticks = 0
    /\ cart = Mbc1_new(ROM_2MB, RAM_32KB)
    /\ last = NoCall

NextStack == Write8 \/ CpuCycle

SpecStack == InitStack /\ [][NextStack]_vars

(***************************************************************************)
(* The ALU helpers of execute.rs as functions of the register file, and a  *)
(* specification that applies one of them to an arbitrary A and F.         *)
(***************************************************************************)
\* alu_add8 that leaves the carry flag as it was
alu_add8_KeepCarry(r, val) ==
    LET a == r.a
        result == (a + val) % 256
        r1 == set_zf(r, result = 0)
        r2 == set_nf(r1, FALSE)
        r3 == set_hf(r2, (a % 16) + (val % 16) > 15)
    IN  [r3 EXCEPT !.a = result]

\* Cpu::alu_add8
alu_add8(r, val) ==
    LET a == r.a
        result == (a + val) % 256
        r1 == set_zf(r, result = 0)
        r2 == set_nf(r1, FALSE)
        r3 == set_hf(r2, (a % 16) + (val % 16) > 15)
        r4 == set_cf(r3, a + val > 255)
    IN  [r4 EXCEPT !.a = result]

\* alu_daa that adjusts upwards whatever the subtract flag says
alu_daa_AlwaysAdd(r) ==
    LET a == r.a
        low == hf(r) \/ (~nf(r) /\ (a % 16) > 9)
        high == cf(r) \/ (~nf(r) /\ a > 153)
        adjust == (IF low THEN 6 ELSE 0) + (IF high THEN 96 ELSE 0)
        r1 == IF high THEN set_cf(r, TRUE) ELSE r
        a1 == (a + adjust) % 256
        r2 == set_hf(set_zf(r1, a1 = 0), FALSE)
    IN  [r2 EXCEPT !.a = a1]

\* Cpu::alu_daa
alu_daa(r) ==
    LET a == r.a
        low == hf(r) \/ (~nf(r) /\ (a % 16) > 9)
        high == cf(r) \/ (~nf(r) /\ a > 153)
        adjust == (IF low THEN 6 ELSE 0) + (IF high THEN 96 ELSE 0)
        r1 == IF high THEN set_cf(r, TRUE) ELSE r
        a1 == IF nf(r1) THEN (a + 256 - adjust) % 256 ELSE (a + adjust) % 256
        r2 == set_hf(set_zf(r1, a1 = 0), FALSE)
    IN  [r2 EXCEPT !.a = a1]

\* every value of F: the four flag bits, the low nibble zero
FlagBytes == {16 * n : n \in 0..15}

Bytes == 0..255

NoAlu == [call |-> "none", a0 |-> 0, f0 |-> 0, val |-> 0]

InitAlu ==
    /\ \E a \in Bytes, f \in FlagBytes : reg = [Registers_new EXCEPT !.a = a, !.f = f]
    /\ ime = TRUE /\ halt = FALSE /\ cycles = 0
    /\ mem = NoCells /\ io = NoCells /\ if_ = 0 /\ ie = 0
    /\ timer = Timer_new /\ ppu = Ppu_new /\ panicked = FALSE
    /\ image = "ld" /\ steps = 0 /\ writes = 0 /\ mcycles = 0 /\ mmu_ticks = 0
    /\ cart = Mbc1_new(ROM_2MB, RAM_32KB)
    /\ last = NoAlu

\* alu_add8(val) on the register file
AluAdd8 ==
    /\ last.call = "none"
    /\ \E val \in Bytes :
          /\ reg' = alu_add8(reg, val)
          /\ last' = [call |-> "alu_add8", a0 |-> reg.a, f0 |-> reg.f, val |-> val]
    /\ UNCHANGED << ime, halt, cycles, mem, io, if_, ie, timer, ppu, panicked,
                    image, steps, writes, mcycles, mmu_ticks, cart >>

\* alu_daa() on the register file
AluDaa ==
    /\ last.call = "none"
    /\ reg' = alu_daa(reg)
    /\ last' = [call |-> "alu_daa", a0 |-> reg.a, f0 |-> reg.f, val |-> 0]
    /\ UNCHANGED << ime, halt, cycles, mem, io, if_, ie, timer, ppu, panicked,
                    image, steps, writes, mcycles, mmu_ticks, cart >>

NextAlu == AluAdd8 \/ AluDaa

SpecAlu == InitAlu /\ [][NextAlu]_vars

(***************************************************************************)
(* The subtracting ALU helpers of execute.rs, and a specification that     *)
(* applies one of them to every A, every operand and either carry; the     *)
(* operand of the register form is loaded into B first.                    *)
(***************************************************************************)
\* Cpu::alu_sub8
alu_sub8(r, val) ==
    LET a == r.a
        result == (a + 256 - val) % 256
        r1 == set_zf(r, result = 0)
        r2 == set_nf(r1, TRUE)
        r3 == set_hf(r2, (a % 16) < (val % 16))
        r4 == set_cf(r3, a < val)
    IN  [r4 EXCEPT !.a = result]

\* alu_sbc8 that leaves the carry flag out of the subtraction
alu_sbc8_NoCarryIn(r, val) == alu_sub8(r, val)

\* Cpu::alu_sbc8
alu_sbc8(r, val) ==
    LET a == r.a
        c == IF cf(r) THEN 1 ELSE 0
        result == (((a + 256 - val) % 256) + 256 - c) % 256
        r1 == set_zf(r, result = 0)
        r2 == set_nf(r1, TRUE)
        r3 == set_hf(r2, (a % 16) < (val % 16) + c)
        r4 == set_cf(r3, a < result + c)
    IN  [r4 EXCEPT !.a = result]

\* Cpu::alu_sbcr8
alu_sbcr8(r, src) ==
    LET a == r.a
        val == r[src]
        c == IF cf(r) THEN 1 ELSE 0
        result == (((a + 256 - val) % 256) + 256 - c) % 256
        r1 == set_zf(r, result = 0)
        r2 == set_nf(r1, TRUE)
        r3 == set_hf(r2, (a % 16) < (val % 16) + c)
        r4 == set_cf(r3, a < result + c)
    IN  [r4 EXCEPT !.a = result]

\* Cpu::alu_cp8
alu_cp8(r, val) ==
    LET a == r.a
        result == (a + 256 - val) % 256
        r1 == set_zf(r, result = 0)
        r2 == set_nf(r1, TRUE)
        r3 == set_hf(r2, (a % 16) < (val % 16))
    IN  set_cf(r3, a < result)

\* Cpu::ldr8
ldr8(r, dst, val) == Registers_write8(r, dst, val)

\* the values of F the subtractions start from: carry clear, carry set
SbcFlags == {0, 16, 240}

InitSbc ==
    /\ \E a \in Bytes, f \in SbcFlags : reg = [Registers_new EXCEPT !.a = a, !.f = f]
    /\ ime = TRUE /\ halt = FALSE /\ cycles = 0
    /\ mem = NoCells /\ io = NoCells /\ if_ = 0 /\ ie = 0
    /\ timer = Timer_new /\ ppu = Ppu_new /\ panicked = FALSE
    /\ image = "ld" /\ steps = 0 /\ writes = 0 /\ mcycles = 0 /\ mmu_ticks = 0
    /\ cart = Mbc1_new(ROM_2MB, RAM_32KB)
    /\ last = NoAlu

\* 0x06 LD B, d8
LdB ==
    /\ last.call = "none"
    /\ \E val \in Bytes :
          /\ reg' = ldr8(reg, "b", val)
          /\ last' = [call |-> "ld_b", a0 |-> reg.a, f0 |-> reg.f, val |-> val]
    /\ UNCHANGED << ime, halt, cycles, mem, io, if_, ie, timer, ppu, panicked,
                    image, steps, writes, mcycles, mmu_ticks, cart >>

\* 0x98 SBC A, B
AluSbcr8 ==
    /\ last.call = "ld_b"
    /\ reg' = alu_sbcr8(reg, "b")
    /\ last' = [call |-> "alu_sbcr8", a0 |-> reg.a, f0 |-> reg.f, val |-> reg.b]
    /\ UNCHANGED << ime, halt, cycles, mem, io, if_, ie, timer, ppu, panicked,
                    image, steps, writes, mcycles, mmu_ticks, cart >>

\* alu_sbc8(val) on the register file
AluSbc8 ==
    /\ last.call = "none"
    /\ \E val \in Bytes :
          /\ reg' = alu_sbc8(reg, val)
          /\ last' = [call |-> "alu_sbc8", a0 |-> reg.a, f0 |-> reg.f, val |-> val]
    /\ UNCHANGED << ime, halt, cycles, mem, io, if_, ie, timer, ppu, panicked,
                    image, steps, writes, mcycles, mmu_ticks, cart >>

\* alu_cp8(val) on the register file
AluCp8 ==
    /\ last.call = "none"
    /\ \E val \in Bytes :
          /\ reg' = alu_cp8(reg, val)
          /\ last' = [call |-> "alu_cp8", a0 |-> reg.a, f0 |-> reg.f, val |-> val]
    /\ UNCHANGED << ime, halt, cycles, mem, io, if_, ie, timer, ppu, panicked,
                    image, steps, writes, mcycles, mmu_ticks, cart >>

NextSbc == LdB \/ AluSbcr8 \/ AluSbc8 \/ AluCp8

SpecSbc == InitSbc /\ [][NextSbc]_vars

(***************************************************************************)
(* The register file under every way the program writes F: 8-bit writes,   *)
(* 16-bit writes of AF, POP AF and the four flag setters.                  *)
(***************************************************************************)
\* 0xF1 POP AF
op_pop_af(st) ==
    LET pp == stack_pop(st)
    IN  [pp.st EXCEPT !.reg = Registers_write16(pp.st.reg, "AF", pp.val)]

\* the bytes written to F and found on the stack
FlagVals == {0, 15, 90, 165, 255}                \* 0x00 0x0F 0x5A 0xA5 0xFF

\* the words written to AF
WordVals == {15, 4660, 43775, 65535}             \* 0x000F 0x1234 0xAAFF 0xFFFF

InitRegs == Init /\ image = "ld"

RegWrite8F ==
    /\ steps < MaxSteps
    /\ \E val \in FlagVals :
          /\ reg' = Registers_write8(reg, "f", val)
          /\ last' = [call |-> "write8", val |-> val]
    /\ steps' = steps + 1
    /\ UNCHANGED << ime, halt, cycles, mem, io, if_, ie, timer, ppu, panicked,
                    image, writes, mcycles, mmu_ticks, cart >>

RegWrite16AF ==
    /\ steps < MaxSteps
    /\ \E val \in WordVals :
          /\ reg' = Registers_write16(reg, "AF", val)
          /\ last' = [call |-> "write16", val |-> val]
    /\ steps' = steps + 1
    /\ UNCHANGED << ime, halt, cycles, mem, io, if_, ie, timer, ppu, panicked,
                    image, writes, mcycles, mmu_ticks, cart >>

RegSetFlag ==
    /\ steps < MaxSteps
    /\ \E on \in BOOLEAN :
          \/ reg' = set_zf(reg, on) /\ last' = [call |-> "set_zf", val |-> 0]
          \/ reg' = set_nf(reg, on) /\ last' = [call |-> "set_nf", val |-> 0]
          \/ reg' = set_hf(reg, on) /\ last' = [call |-> "set_hf", val |-> 0]
          \/ reg' = set_cf(reg, on) /\ last' = [call |-> "set_cf", val |-> 0]
    /\ steps' = steps + 1
    /\ UNCHANGED << ime, halt, cycles, mem, io, if_, ie, timer, ppu, panicked,
                    image, writes, mcycles, mmu_ticks, cart >>

PopAF ==
    /\ steps < MaxSteps
    /\ \E s \in Fill(Machine, {reg.sp, W16(reg.sp + 1)}, FlagVals) :
          /\ Install(op_pop_af(s))
          /\ last' = [call |-> "pop_af", val |-> Mmu_read16(s, reg.sp)]
    /\ steps' = steps + 1
    /\ UNCHANGED << cycles, image, writes, mcycles, mmu_ticks, cart >>

NextRegs == RegWrite8F \/ RegWrite16AF \/ RegSetFlag \/ PopAF

SpecRegs == InitRegs /\ [][NextRegs]_vars

(***************************************************************************)
(* The memory router driven directly: reads and writes of Mmu at addresses *)
(* of every kind of region.                                                *)
(***************************************************************************)
\* 0x0150 ROM, 0xC000 / 0xDDFF WRAM, 0xE000 / 0xFDFF echo, 0xFE00 OAM,
\* 0xFEA0 / 0xFEFF prohibited, 0xFF04 DIV, 0xFFFE HRAM
MemAddrs == {336, 49152, 56831, 57344, 65023, 65024, 65184, 65279, 65284, 65534}

MemVals == {52, 165}                             \* 0x34 0xA5

MemWords == {4660}                               \* 0x1234

\* the machine after the step
MachineAfter ==
    [reg |-> reg', ime |-> ime', halt |-> halt', mem |-> mem', io |-> io',
     if_ |-> if_', ie |-> ie', timer |-> timer', ppu |-> ppu', panicked |-> panicked']

InitMem == Init /\ image = "ld"

\* Mmu::read8(addr)
MemRead8 ==
    /\ ~panicked /\ steps < MaxMemOps
    /\ \E addr \in MemAddrs :
          \E s \in Fill(Machine, {addr}, MemVals) :
             /\ Install(s)
             /\ last' = [call |-> "read8", addr |-> addr, val |-> Mmu_read8(s, addr)]
    /\ steps' = steps + 1
    /\ UNCHANGED << cycles, image, writes, mcycles, mmu_ticks, cart >>

\* Mmu::write8(addr, val)
MemWrite8 ==
    /\ ~panicked /\ steps < MaxMemOps
    /\ \E addr \in MemAddrs, val \in MemVals :
          /\ Install(Mmu_write8(Machine, addr, val))
          /\ last' = [call |-> "write8", addr |-> addr, val |-> val]
    /\ steps' = steps + 1
    /\ UNCHANGED << cycles, image, writes, mcycles, mmu_ticks, cart >>

\* Mmu::write16(addr, val)
MemWrite16 ==
    /\ ~panicked /\ steps < MaxMemOps
    /\ \E addr \in MemAddrs, val \in MemWords :
          /\ Install(Mmu_write16(Machine, addr, val))
          /\ last' = [call |-> "write16", addr |-> addr, val |-> val]
    /\ steps' = steps + 1
    /\ UNCHANGED << cycles, image, writes, mcycles, mmu_ticks, cart >>

NextMem == MemRead8 \/ MemWrite8 \/ MemWrite16

SpecMem == InitMem /\ [][NextMem]_vars

(***************************************************************************)
(* The Fifo driven directly: push, pop and clear on the FIFO of the Ppu's  *)
(* fetcher.  It starts in a state pushes and pops reach: `tail` anywhere   *)
(* in the ring and 0, 8, 15 or 16 values queued.  `last.queue` lists the   *)
(* values pushed and not yet popped or cleared, oldest first.              *)
(***************************************************************************)
FifoVals == {1, 2}

\* the value queued at place i of a FIFO that starts at `tail`
FifoFill(tail, i) == ((tail + i) % 3) + 1

\* the FIFO holding `size` values from `tail` on
FifoAt(tail, size) ==
    [data |-> [j \in 0..15 |-> IF (j - tail) % 16 < size
                                THEN FifoFill(tail, ((j - tail) % 16) + 1) ELSE 0],
     tail |-> tail, head |-> (tail + size) % 16, size |-> size]

InitFifo ==
    /\ reg = Registers_new
    /\ ime = TRUE
    /\ halt = FALSE
    /\ cycles = 0
    /\ mem = NoCells
    /\ io = NoCells
    /\ if_ = 0
    /\ ie = 0
    /\ timer = Timer_new
    /\ \E t \in {0, 9, 15}, n \in {0, 8, 15, 16} :
          /\ ppu = [Ppu_new EXCEPT !.fetcher.fifo = FifoAt(t, n)]
          /\ last = [call |-> "none", val |-> 0, ret |-> 0,
                     queue |-> [i \in 1..n |-> FifoFill(t, i)]]
    /\ panicked = FALSE
    /\ image = "ld"
    /\ steps = 0
    /\ writes = 0
    /\ mcycles = 0
    /\ mmu_ticks = 0
    /\ cart = Mbc1_new(ROM_2MB, RAM_32KB)

\* Fifo::push(value)
FifoPush ==
    /\ ~panicked /\ steps < MaxFifoOps
    /\ \E v \in FifoVals :
          LET r == Fifo_push(ppu.fetcher.fifo, v)
          IN  /\ ppu' = [ppu EXCEPT !.fetcher.fifo = r.fifo]
              /\ panicked' = r.panic
              /\ last' = [call |-> "push", val |-> v, ret |-> 0,
                          queue |-> IF r.panic THEN last.queue ELSE Append(last.queue, v)]
    /\ steps' = steps + 1
    /\ UNCHANGED << reg, ime, halt, cycles, mem, io, if_, ie, timer,
                    image, writes, mcycles, mmu_ticks, cart >>

\* Fifo::pop()
FifoPop ==
    /\ ~panicked /\ steps < MaxFifoOps
    /\ LET r == Fifo_pop(ppu.fetcher.fifo)
       IN  /\ ppu' = [ppu EXCEPT !.fetcher.fifo = r.fifo]
           /\ panicked' = r.panic
           /\ last' = [call |-> "pop", val |-> 0, ret |-> r.value,
                       queue |-> IF r.panic THEN last.queue ELSE Tail(last.queue)]
    /\ steps' = steps + 1
    /\ UNCHANGED << reg, ime, halt, cycles, mem, io, if_, ie, timer,
                    image, writes, mcycles, mmu_ticks, cart >>

\* Fifo::clear()
FifoClear ==
    /\ ~panicked /\ steps < MaxFifoOps
    /\ ppu' = [ppu EXCEPT !.fetcher.fifo = Fifo_clear(ppu.fetcher.fifo)]
    /\ last' = [call |-> "clear", val |-> 0, ret |-> 0, queue |-> << >>]
    /\ steps' = steps + 1
    /\ UNCHANGED << reg, ime, halt, cycles, mem, io, if_, ie, timer, panicked,
                    image, writes, mcycles, mmu_ticks, cart >>

NextFifo == FifoPush \/ FifoPop \/ FifoClear

SpecFifo == InitFifo /\ [][NextFifo]_vars

(***************************************************************************)
(* The Fetcher driven directly: start, tick and a pop of its FIFO, from    *)
(* Fetcher::new over a VRAM whose first byte the Ppu has written.          *)
(***************************************************************************)
FetcherMaps == {0, 6144, 38912}
FetcherLines == {0, 7}
FetcherTileIds == {0, 255}

NoFetcherCall == [call |-> "none", index |-> -1, ret |-> 0]

InitFetcher ==
    /\ reg = Registers_new
    /\ ime = TRUE
    /\ halt = FALSE
    /\ cycles = 0
    /\ mem = NoCells
    /\ io = NoCells
    /\ if_ = 0
    /\ ie = 0
    /\ timer = Timer_new
    /\ \E id \in FetcherTileIds : ppu = Ppu_write8(Ppu_new, 32768, id)
    /\ panicked = FALSE
    /\ image = "ld"
    /\ steps = 0
    /\ writes = 0
    /\ mcycles = 0
    /\ mmu_ticks = 0
    /\ cart = Mbc1_new(ROM_2MB, RAM_32KB)
    /\ last = NoFetcherCall

\* Fetcher::start(map_addr, tile_line)
FetcherStart ==
    /\ ~panicked /\ steps < MaxFetcherOps
    /\ \E map_addr \in FetcherMaps, tile_line \in FetcherLines :
          ppu' = [ppu EXCEPT !.fetcher = Fetcher_start(ppu.fetcher, map_addr, tile_line)]
    /\ last' = [call |-> "start", index |-> -1, ret |-> 0]
    /\ steps' = steps + 1
    /\ UNCHANGED << reg, ime, halt, cycles, mem, io, if_, ie, timer, panicked,
                    image, writes, mcycles, mmu_ticks, cart >>

\* Fetcher::tick()
FetcherTick ==
    /\ ~panicked /\ steps < MaxFetcherOps
    /\ LET r == Fetcher_tick(ppu.fetcher, ppu.vram)
       IN  /\ ppu' = [ppu EXCEPT !.fetcher = r.fetcher]
           /\ panicked' = r.panic
           /\ last' = [call |-> "tick", index |-> r.index, ret |-> 0]
    /\ steps' = steps + 1
    /\ UNCHANGED << reg, ime, halt, cycles, mem, io, if_, ie, timer,
                    image, writes, mcycles, mmu_ticks, cart >>

\* Fifo::pop() on the fetcher's FIFO
FetcherPop ==
    /\ ~panicked /\ steps < MaxFetcherOps
    /\ LET r == Fifo_pop(ppu.fetcher.fifo)
       IN  /\ ppu' = [ppu EXCEPT !.fetcher.fifo = r.fifo]
           /\ panicked' = r.panic
           /\ last' = [call |-> "pop", index |-> -1, ret |-> r.value]
    /\ steps' = steps + 1
    /\ UNCHANGED << reg, ime, halt, cycles, mem, io, if_, ie, timer,
                    image, writes, mcycles, mmu_ticks, cart >>

NextFetcher == FetcherStart \/ FetcherTick \/ FetcherPop

SpecFetcher == InitFetcher /\ [][NextFetcher]_vars

(***************************************************************************)
(* The Ppu driven directly through its Memory implementation: write8 on    *)
(* VRAM, OAM and the registers LCDC, STAT, LY and LYC, and cycle().        *)
(***************************************************************************)
\* 0x8000, 0xFE00, 0xFF40 LCDC, 0xFF41 STAT, 0xFF44 LY, 0xFF45 LYC
PpuAddrs == {32768, 65024, 65344, 65345, 65348, 65349}

\* 0x00, 0x78 (the four STAT interrupt enables), 0x80 (LCD on), 0x91
PpuVals == {0, 120, 128, 145}

NoPpuCall == [call |-> "none", addr |-> 0, val |-> 0, ret |-> 0]

InitPpu ==
    /\ reg = Registers_new
    /\ ime = TRUE
    /\ halt = FALSE
    /\ cycles = 0
    /\ mem = NoCells
    /\ io = NoCells
    /\ if_ = 0
    /\ ie = 0
    /\ timer = Timer_new
    /\ ppu = Ppu_new
    /\ panicked = FALSE
    /\ image = "ld"
    /\ steps = 0
    /\ writes = 0
    /\ mcycles = 0
    /\ mmu_ticks = 0
    /\ cart = Mbc1_new(ROM_2MB, RAM_32KB)
    /\ last = NoPpuCall

\* Ppu::write8(addr, val)
PpuWrite8 ==
    /\ ~panicked /\ steps < MaxPpuOps
    /\ \E addr \in PpuAddrs, val \in PpuVals :
          /\ ppu' = Ppu_write8(ppu, addr, val)
          /\ last' = [call |-> "write8", addr |-> addr, val |-> val, ret |-> 0]
    /\ steps' = steps + 1
    /\ UNCHANGED << reg, ime, halt, cycles, mem, io, if_, ie, timer, panicked,
                    image, writes, mcycles, mmu_ticks, cart >>

\* Ppu::read8(addr)
PpuRead8 ==
    /\ ~panicked /\ steps < MaxPpuOps
    /\ \E addr \in PpuAddrs :
          last' = [call |-> "read8", addr |-> addr, val |-> 0, ret |-> Ppu_read8(ppu, addr)]
    /\ steps' = steps + 1
    /\ UNCHANGED << reg, ime, halt, cycles, mem, io, if_, ie, timer, ppu, panicked,
                    image, writes, mcycles, mmu_ticks, cart >>

\* Ppu::cycle(_); Ppu holds no reference to the IF register
PpuCycle ==
    /\ ~panicked /\ steps < MaxPpuOps
    /\ LET r == Ppu_cycle(ppu)
       IN  /\ ppu' = r.ppu
           /\ panicked' = r.panic
           /\ last' = [call |-> "cycle", addr |-> 0, val |-> 0, ret |-> r.ticks]
    /\ steps' = steps + 1
    /\ UNCHANGED << reg, ime, halt, cycles, mem, io, if_, ie, timer,
                    image, writes, mcycles, mmu_ticks, cart >>

NextPpu == PpuWrite8 \/ PpuRead8 \/ PpuCycle

SpecPpu == InitPpu /\ [][NextPpu]_vars

(***************************************************************************)
(* The Timer driven directly: Timer::set on FF04-FF07 and Timer::cycle.    *)
(* The timer starts in a state the program reaches with the timer stopped: *)
(* DIV at 0x00 or 0xFF, TIMA at 0x00 or 0xFF, TMA at 0x80, and IF empty or *)
(* with every request but the Timer's pending.  `last` also counts the     *)
(* cycles passed to cycle() since DIV was last restarted (since_div), and  *)
(* those passed while TAC bit 2 was set since the TIMA clock was last      *)
(* restarted (since_tima), and keeps TAC and the TIMA clock's count as     *)
(* they were when the call was made (tac0, n0).                            *)
(***************************************************************************)
TimerCycles == {4, 12, 252, 1024}

\* <<address, value>> of the Timer::set calls: DIV, TIMA, TMA, TAC
TimerSets ==
    {<<65284, 0>>, <<65284, 90>>, <<65285, 254>>, <<65286, 7>>}
      \cup {<<65287, v>> : v \in {0, 1, 4, 5, 6, 7}}

InitTimer ==
    /\ reg = Registers_new
    /\ ime = TRUE
    /\ halt = FALSE
    /\ cycles = 0
    /\ mem = NoCells
    /\ io = NoCells
    /\ if_ \in {0, 27}
    /\ ie = 0
    /\ \E d \in {0, 255}, t \in {0, 255} :
          /\ timer = [Timer_new EXCEPT !.div = d, !.tima = t, !.tma = 128]
          /\ last = [call |-> "none", a |-> 0, v |-> 0, c |-> 0,
                     since_div |-> d * 256, since_tima |-> 0, tac0 |-> 0, n0 |-> 0]
    /\ ppu = Ppu_new
    /\ panicked = FALSE
    /\ image = "ld"
    /\ steps = 0
    /\ writes = 0
    /\ mcycles = 0
    /\ mmu_ticks = 0
    /\ cart = Mbc1_new(ROM_2MB, RAM_32KB)

\* Timer::set(a, v)
TimerSet ==
    /\ steps < MaxTimerOps
    /\ \E s \in TimerSets :
          /\ timer' = Timer_set(timer, s[1], s[2])
          /\ last' = [call |-> "set", a |-> s[1], v |-> s[2], c |-> 0,
                      since_div |-> IF s[1] = 65284 THEN 0 ELSE last.since_div,
                      since_tima |-> IF s[1] = 65287 /\ s[2] % 4 # timer.tac % 4
                                     THEN 0 ELSE last.since_tima,
                      tac0 |-> timer.tac, n0 |-> timer.tma_clock.n]
    /\ steps' = steps + 1
    /\ UNCHANGED << reg, ime, halt, cycles, mem, io, if_, ie, ppu, panicked,
                    image, writes, mcycles, mmu_ticks, cart >>

\* Timer::cycle(cycles)
TimerCycle ==
    /\ steps < MaxTimerOps
    /\ \E c \in TimerCycles :
          LET r == Timer_cycle(timer, if_, c)
          IN  /\ timer' = r.timer
              /\ if_' = r.if_
              /\ last' = [call |-> "cycle", a |-> 0, v |-> 0, c |-> c,
                          since_div |-> last.since_div + c,
                          since_tima |-> IF Bit(timer.tac, 2) # 0
                                         THEN last.since_tima + c ELSE last.since_tima,
                          tac0 |-> timer.tac, n0 |-> timer.tma_clock.n]
    /\ steps' = steps + 1
    /\ UNCHANGED << reg, ime, halt, cycles, mem, io, ie, ppu, panicked,
                    image, writes, mcycles, mmu_ticks, cart >>

NextTimer == TimerSet \/ TimerCycle

SpecTimer == InitTimer /\ [][NextTimer]_vars

(***************************************************************************)
(* The timer under cycle() calls alone.  It starts in a state that set()   *)
(* and cycle() reach: running on divisor 64 or 16 or stopped, TIMA at      *)
(* 0x00 or 0xFF, TMA at 0x00 or 0xFE, and either clock with no cycles or   *)
(* all but two of a period of 16 left over.  `last` keeps the timer and IF *)
(* as they were at the start, the cycles passed since and the Timer        *)
(* requests made since.                                                    *)
(***************************************************************************)
ChunkCycles == {1, 15, 16, 240}

InitChunk ==
    /\ reg = Registers_new
    /\ ime = TRUE
    /\ halt = FALSE
    /\ cycles = 0
    /\ mem = NoCells
    /\ io = NoCells
    /\ if_ \in {0, 27}
    /\ ie = 0
    /\ \E tac \in {1, 5, 6}, t \in {0, 255}, m \in {0, 254}, n \in {0, 14} :
          timer = [Timer_new EXCEPT !.tac = tac, !.tima = t, !.tma = m,
                                    !.div_clock.n = n,
                                    !.tma_clock = [period |-> TacPeriod(tac), n |-> n]]
    /\ last = [call |-> "none", c |-> 0, timer0 |-> timer, if0 |-> if_,
               total |-> 0, requests |-> 0]
    /\ ppu = Ppu_new
    /\ panicked = FALSE
    /\ image = "ld"
    /\ steps = 0
    /\ writes = 0
    /\ mcycles = 0
    /\ mmu_ticks = 0
    /\ cart = Mbc1_new(ROM_2MB, RAM_32KB)

\* Timer::cycle(cycles), one chunk of the elapsed time
ChunkCycle ==
    /\ steps < MaxChunkOps
    /\ \E c \in ChunkCycles :
          LET r == Timer_cycle(timer, if_, c)
          IN  /\ timer' = r.timer
              /\ if_' = r.if_
              /\ last' = [last EXCEPT !.call = "cycle", !.c = c,
                                      !.total = last.total + c,
                                      !.requests = last.requests + Timer_requests(timer, c)]
    /\ steps' = steps + 1
    /\ UNCHANGED << reg, ime, halt, cycles, mem, io, ie, ppu, panicked,
                    image, writes, mcycles, mmu_ticks, cart >>

NextChunk == ChunkCycle

SpecChunk == InitChunk /\ [][NextChunk]_vars

(***************************************************************************)
(* A cartridge driven directly through its Memory implementation: an Mbc1  *)
(* with the largest ROM and RAM (SpecMbc1), or a RomOnly or Mbc1 of any of *)
(* the sizes below (SpecCart).                                             *)
(***************************************************************************)
\* 0x0000 RAM enable, 0x2000 ROM bank, 0x4000 upper bits, 0x6000 mode
\* select, 0xA000 cartridge RAM
CartAddrs == {0, 8192, 16384, 24576, 40960}

CartVals == {0, 1, 3, 10, 32, 58}                \* 0x00 0x01 0x03 0x0A 0x20 0x3A

\* the bytes found in rom and ram
CartBytes == {52, 165}                           \* 0x34 0xA5

\* every way to give a value to the byte a read of `addr` reaches, if it
\* is not known yet
\* the index into rom behind a cartridge address
RomCell(c, addr) == IF c.mbc = "RomOnly" THEN addr ELSE RomIndex(c, addr)

CartFill(c, addr) ==
    IF Cartridge_read8_faults(c, addr) THEN {c}
    ELSE IF (c.mbc = "RomOnly" \/ InRange(addr, 0, 32767))
            /\ RomCell(c, addr) \notin DOMAIN c.rom
    THEN {[c EXCEPT !.rom = (RomCell(c, addr) :> b) @@ c.rom] : b \in CartBytes}
    ELSE IF c.mbc = "Mbc1" /\ InRange(addr, 40960, 49151) /\ c.ram_enabled
            /\ RamIndex(c, addr) \notin DOMAIN c.ram
    THEN {[c EXCEPT !.ram = (RamIndex(c, addr) :> b) @@ c.ram] : b \in CartBytes}
    ELSE {c}

\* 0x0100 and 0x0A01
CartWords == {256, 2561}

\* the lengths of the rom and ram vectors: 32 KiB and 2 MiB of ROM; no
\* RAM, 8 KiB and 32 KiB of RAM
RomSizes == {32768, ROM_2MB}
RamSizes == {0, 8192, RAM_32KB}

InitMbc1 == Init /\ image = "ld"

InitCart ==
    /\ reg = Registers_new
    /\ ime = TRUE
    /\ halt = FALSE
    /\ cycles = 0
    /\ mem = NoCells
    /\ io = NoCells
    /\ if_ = 0
    /\ ie = 0
    /\ timer = Timer_new
    /\ ppu = Ppu_new
    /\ panicked = FALSE
    /\ image = "ld"
    /\ steps = 0
    /\ writes = 0
    /\ mcycles = 0
    /\ mmu_ticks = 0
    /\ cart \in {RomOnly_new(n) : n \in RomSizes}
                \cup {Mbc1_new(n, m) : n \in RomSizes, m \in RamSizes}
    /\ last = NoCall

\* Cartridge::read8(addr); `fault` says the index was out of bounds, and no
\* byte was returned then
CartRead8 ==
    /\ ~panicked /\ steps < MaxCartOps
    /\ \E addr \in CartAddrs :
          \E c \in CartFill(cart, addr) :
             LET f == Cartridge_read8_faults(c, addr)
             IN  /\ cart' = c
                 /\ panicked' = f
                 /\ last' = [call |-> "read8", addr |-> addr,
                             val |-> IF f THEN 0 ELSE Cartridge_read8(c, addr),
                             fault |-> f]
    /\ steps' = steps + 1
    /\ UNCHANGED << reg, ime, halt, cycles, mem, io, if_, ie, timer, ppu,
                    image, writes, mcycles, mmu_ticks >>

\* Cartridge::write8(addr, val)
CartWrite8 ==
    /\ ~panicked /\ steps < MaxCartOps
    /\ \E addr \in CartAddrs, val \in CartVals :
          LET w == Cartridge_write8(cart, addr, val)
          IN  /\ cart' = w.cart
              /\ panicked' = w.panic
              /\ last' = [call |-> "write8", addr |-> addr, val |-> val,
                          fault |-> w.panic]
    /\ steps' = steps + 1
    /\ UNCHANGED << reg, ime, halt, cycles, mem, io, if_, ie, timer, ppu,
                    image, writes, mcycles, mmu_ticks >>

\* Cartridge::write16(addr, val)
CartWrite16 ==
    /\ ~panicked /\ steps < MaxCartOps
    /\ \E addr \in CartAddrs, val \in CartWords :
          LET w == Cartridge_write16(cart, addr, val)
          IN  /\ cart' = w.cart
              /\ panicked' = w.panic
              /\ last' = [call |-> "write16", addr |-> addr, val |-> val,
                          fault |-> w.panic]
    /\ steps' = steps + 1
    /\ UNCHANGED << reg, ime, halt, cycles, mem, io, if_, ie, timer, ppu,
                    image, writes, mcycles, mmu_ticks >>

NextMbc1 == CartRead8 \/ CartWrite8 \/ CartWrite16

SpecMbc1 == InitMbc1 /\ [][NextMbc1]_vars

SpecCart == InitCart /\ [][NextMbc1]_vars

(***************************************************************************)
(* Instruction dispatch with the opcode table as opcodes.rs builds it:     *)
(* op_execute is called with an arbitrary opcode byte.                     *)
(***************************************************************************)
\* the opcodes that have a row in CPU_OP_CODES, hence a key in OPCODES_MAP
TableOps == {0, 1, 2, 3}

\* Cpu::op_execute(op): `opcodes.get(&op).unwrap()` panics when the table
\* has no row for op, before the match on op is reached
Dispatch ==
    /\ ~panicked /\ steps < MaxSteps
    /\ \E op \in 0..255 :
          IF op \in TableOps
          THEN \E s \in Fill(Machine, ReadSet(Machine, op), DataBytes) :
                  LET ex == op_execute(s, op)
                  IN  /\ Install(ex.st)
                      /\ last' = [call |-> "op_execute", op |-> op,
                                  found |-> TRUE, cycle |-> ex.cycle]
          ELSE /\ Install([Machine EXCEPT !.panicked = TRUE])
               /\ last' = [call |-> "op_execute", op |-> op,
                           found |-> FALSE, cycle |-> 0]
    /\ steps' = steps + 1
    /\ UNCHANGED << cycles, image, writes, mcycles, mmu_ticks, cart >>

InitDispatch == Init /\ image = "ld"

NextDispatch == Dispatch

SpecDispatch == InitDispatch /\ [][NextDispatch]_vars

(***************************************************************************)
(* Properties.                                                             *)
(***************************************************************************)
\* this step is a call of Cpu::cycle
StepCpu == steps' = steps + 1

\* the value of the input cell behind `addr`
ByteAt(addr) == mem[Cell(Machine, addr)]
KnownAt(addr) == Cell(Machine, addr) \in DOMAIN mem

\* C1: with IME set and IE & IF # 0, handle_interrupts services the lowest
\* bit set in both IE and IF: it clears only that bit of IF, clears IME,
\* pushes PC and sets PC to 0x0040 + 8 * bit.
C1_Original ==
    [][(StepCpu /\ ime /\ And8(ie, if_) # 0) =>
         LET i == TrailingZeros(And8(ie, if_))
         IN  /\ last'.serviced
             /\ last'.bit = i
             /\ last'.int_if = ClearBit(if_, i)
             /\ ~last'.int_ime
             /\ last'.int_sp = W16(reg.sp + 65534)
             /\ last'.int_top = reg.pc
             /\ last'.int_pc = 64 + 8 * i]_vars

\* C2: every Cpu::cycle call hands the T-cycles it consumed to Mmu::cycle,
\* and Mmu::cycle advances the timer by the ticks it is given.
C2_Original ==
    [][/\ StepCpu => mmu_ticks' = mmu_ticks + last'.consumed
       /\ mcycles' = mcycles + 1 =>
            256 * timer'.div + timer'.div_clock.n
              = (256 * timer.div + timer.div_clock.n + (mmu_ticks' - mmu_ticks)) % 65536]_vars

\* C3: a Cpu::cycle call that services an interrupt fetches and executes
\* no instruction: PC after the call is the interrupt vector.
C3_Original ==
    (last.call = "cycle" /\ last.serviced) =>
        (~last.fetched /\ reg.pc = 64 + 8 * last.bit)

\* C4: a halted CPU with one of the five interrupts pending and enabled
\* leaves the halt at the next cycle() whatever IME is; with IME clear the
\* interrupt is not serviced (IF and the stack untouched) and execution
\* resumes at the instruction after HALT.
C4_Original ==
    [][(StepCpu /\ halt /\ And8(And8(ie, if_), 31) # 0) =>
         /\ last'.fetched
         /\ ~ime => /\ ~last'.serviced
                    /\ last'.int_if = if_
                    /\ last'.int_sp = reg.sp
                    /\ last'.fetch_pc = reg.pc]_vars

\* C5: a cycle() call made while the halt flag is set, and in which no
\* interrupt clears it, fetches nothing and leaves PC and every register
\* as they were; the CPU stays halted.
C5_Theorem ==
    [][(StepCpu /\ halt /\ ~last'.serviced /\ ~panicked') =>
         (~last'.fetched /\ reg' = reg /\ halt')]_vars

\* C5: a cycle() call has been made on a halted CPU and left it halted
C5_Witness ==
    last.call = "cycle" /\ last.halt0 /\ ~last.serviced /\ ~last.fetched /\ halt

\* C6: every cycle() call that returns consumes a strictly positive amount
\* of time, also while the CPU is halted.
C6_Original == (last.call = "cycle" /\ ~panicked) => last.consumed > 0

\* C7: after EI has enabled IME, no interrupt is dispatched before the
\* instruction that follows EI has executed; after DI no interrupt is
\* dispatched.
C7_Original ==
    [][/\ (StepCpu /\ last.fetched /\ last.op = 251 /\ ~last.int_ime) => ~last'.serviced
       /\ (StepCpu /\ last.fetched /\ last.op = 243) => ~last'.serviced]_vars

\* C8: servicing an interrupt costs 16 T-cycles; a cycle() that services
\* none adds 0 for interrupt handling.
C8_Original ==
    last.call = "cycle" =>
        IF last.serviced THEN last.int_cycles = 16 ELSE last.int_cycles = 0

NonJumpOps == {0, 1, 18, 52, 118, 243, 251}

\* C9: a non-jump instruction advances PC by its byte length and costs its
\* table cycle count; LD BC,d16 loads BC with the two bytes after the opcode.
C9_Original ==
    (last.fetched /\ last.op \in NonJumpOps) =>
        /\ reg.pc = W16(last.fetch_pc + OPCODES_MAP(last.op).length)
        /\ last.op_cycles = OPCODES_MAP(last.op).cycles
        /\ last.op = 1 =>
              /\ reg.c = ByteAt(W16(last.fetch_pc + 1))
              /\ KnownAt(W16(last.fetch_pc + 2)) => reg.b = ByteAt(W16(last.fetch_pc + 2))

TakenCost(op) ==
    IF op \in JpOps THEN 16 ELSE IF op \in JrOps THEN 12
    ELSE IF op \in CallOps THEN 24 ELSE 20

NotTakenCost(op) ==
    IF op \in JpOps THEN 12 ELSE IF op \in JrOps THEN 8
    ELSE IF op \in CallOps THEN 12 ELSE 8

\* C10: a conditional JP/JR/CALL/RET that is taken leaves PC at the jump
\* target and costs 16/12/24/20; one that is not taken leaves PC at the
\* next instruction and the stack untouched and costs 12/8/12/8.
C10_Original ==
    (last.fetched /\ last.op \in JpOps \cup JrOps \cup CallOps \cup RetOps) =>
        IF last.taken
        THEN /\ last.op_cycles = TakenCost(last.op)
             /\ last.op \in JpOps \cup CallOps =>
                   /\ Lo(reg.pc) = ByteAt(W16(last.fetch_pc + 1))
                   /\ KnownAt(W16(last.fetch_pc + 2)) =>
                         Hi(reg.pc) = ByteAt(W16(last.fetch_pc + 2))
             /\ last.op \in JrOps =>
                   reg.pc = W16(last.fetch_pc + 2 + 65536
                                + AsI8(ByteAt(W16(last.fetch_pc + 1))))
             /\ last.op \in RetOps => reg.pc = Mmu_read16(Machine, last.int_sp)
        ELSE /\ last.op_cycles = NotTakenCost(last.op)
             /\ reg.pc = W16(last.fetch_pc + OPCODES_MAP(last.op).length)
             /\ reg.sp = last.int_sp

\* C11: dispatch is total: for every opcode byte the table lookup finds a
\* row and op_execute returns a cycle count; no opcode aborts the process.
C11_Original ==
    last.call = "op_execute" => (last.found /\ last.cycle > 0 /\ ~panicked)

\* C12: for all 8-bit A and y, alu_add8(y) leaves (A + y) mod 256 in A,
\* Carry iff A + y > 0xFF, Half-Carry iff the low nibbles sum above 0xF,
\* Zero iff the wrapped sum is 0, and Subtract clear.
C12_Theorem ==
    last.call = "alu_add8" =>
        /\ reg.a = (last.a0 + last.val) % 256
        /\ cf(reg) <=> (last.a0 + last.val > 255)
        /\ hf(reg) <=> ((last.a0 % 16) + (last.val % 16) > 15)
        /\ zf(reg) <=> ((last.a0 + last.val) % 256 = 0)
        /\ ~nf(reg)

\* C12: an addition that wrapped to zero with both carries has been made
C12_Witness ==
    last.call = "alu_add8" /\ last.a0 = 255 /\ last.val = 1
    /\ reg.a = 0 /\ cf(reg) /\ hf(reg) /\ zf(reg)

\* C13: DAA with Subtract set, Half-Carry set and Carry clear replaces A by
\* (A - 0x06) mod 256, leaves Carry clear and Subtract set, and sets Zero
\* iff the result is 0; DAA always clears Half-Carry.
C13_Theorem ==
    last.call = "alu_daa" =>
        /\ ~hf(reg)
        /\ (Bit(last.f0, 6) = 1 /\ Bit(last.f0, 5) = 1 /\ Bit(last.f0, 4) = 0) =>
              /\ reg.a = (last.a0 + 250) % 256
              /\ ~cf(reg)
              /\ zf(reg) <=> (reg.a = 0)

\* C13: DAA has run after a subtraction with a half borrow and wrapped A
C13_Witness ==
    last.call = "alu_daa" /\ Bit(last.f0, 6) = 1 /\ Bit(last.f0, 5) = 1
    /\ Bit(last.f0, 4) = 0 /\ last.a0 = 3 /\ reg.a = 253

\* C14: in every reachable register state the low four bits of F are zero,
\* whatever was written to F or AF, popped into AF or set by a flag setter.
C14_Theorem == reg.f % 16 = 0

\* C14: a word with all bits set has been popped into AF
C14_Witness == last.call = "pop_af" /\ last.val = 65535 /\ reg.a = 255 /\ reg.f = 240

\* VRAM, work RAM and its echo, OAM, HRAM: the regions that store a byte
IsRam(addr) ==
    \/ InRange(addr, 32768, 40959)
    \/ InRange(addr, 49152, 65183)
    \/ InRange(addr, 65408, 65534)

C16_Theorem ==
    /\ \A a \in {49152, 56831} :
          (KnownAt(a) \/ KnownAt(a + 8192)) =>
             /\ KnownAt(a) /\ KnownAt(a + 8192)
             /\ Mmu_read8(Machine, a) = Mmu_read8(Machine, a + 8192)
    /\ (last.call = "write8" /\ last.addr \in {49152, 56831, 57344, 65023}) =>
          LET a == IF last.addr >= 57344 THEN last.addr - 8192 ELSE last.addr
          IN  /\ KnownAt(a) /\ KnownAt(a + 8192)
              /\ Mmu_read8(Machine, a) = last.val
              /\ Mmu_read8(Machine, a + 8192) = last.val

\* C16: a byte written through the echo is read back through work RAM
C16_Witness ==
    last.call = "write8" /\ last.addr = 65023 /\ last.val = 165
    /\ KnownAt(56831) /\ Mmu_read8(Machine, 56831) = 165

\* C17: a read of FEA0-FEFF returns 0x00 and a write to it changes nothing;
\* neither aborts.
C17_Theorem ==
    [][(steps' = steps + 1 /\ last'.call \in {"read8", "write8"}
          /\ InRange(last'.addr, 65184, 65279)) =>
         /\ ~panicked'
         /\ MachineAfter = Machine
         /\ last'.call = "read8" => last'.val = 0]_vars

\* C17: a write to the prohibited range has been made
C17_Witness ==
    last.call = "write8" /\ last.addr = 65279 /\ last.val = 165 /\ ~panicked

\* C18: the low five bits of the MBC1 bank register are never 0, so the
\* bank mapped at 4000-7FFF is never 0x00, 0x20, 0x40 or 0x60; a write to
\* 2000-3FFF of a value whose low five bits are 0 selects low bits 1.
C18_Theorem ==
    /\ cart.bank % 32 # 0
    /\ rom_bank(cart) \notin {0, 32, 64, 96}
    /\ (last.call = "write8" /\ InRange(last.addr, 8192, 16383) /\ last.val % 32 = 0) =>
          cart.bank % 32 = 1

\* C18: bank 0x20 was asked for (0x20 to 2000-3FFF, upper bits 1) and bank
\* 0x21 is mapped
C18_Witness ==
    last.call = "write8" /\ last.addr = 8192 /\ last.val = 32
    /\ cart.bank = 33 /\ rom_bank(cart) = 33

\* C19: a write to 0000-1FFF enables the cartridge RAM iff the value's low
\* nibble is 0xA; while the RAM is disabled a read of A000-BFFF returns
\* 0xFF and a write to A000-BFFF leaves the RAM as it was.
C19_Original ==
    [][(steps' = steps + 1) =>
         /\ (last'.call = "write8" /\ InRange(last'.addr, 0, 8191)) =>
                (cart'.ram_enabled <=> (last'.val % 16 = 10))
         /\ (last'.call = "read8" /\ InRange(last'.addr, 40960, 49151)
                /\ ~cart.ram_enabled) => last'.val = 255
         /\ (last'.call = "write8" /\ InRange(last'.addr, 40960, 49151)
                /\ ~cart.ram_enabled) => cart' = cart]_vars

\* C20: a write of 0 or 1 to 6000-7FFF selects ROM or RAM banking mode;
\* any other value is rejected: the cartridge is left as it was and the
\* process does not abort.
C20_Original ==
    [][(steps' = steps + 1 /\ last'.call = "write8"
          /\ InRange(last'.addr, 24576, 32767)) =>
         /\ ~panicked'
         /\ last'.val = 0 => cart' = [cart EXCEPT !.bank_mode = "Rom"]
         /\ last'.val = 1 => cart' = [cart EXCEPT !.bank_mode = "Ram"]
         /\ last'.val \notin {0, 1} => cart' = cart]_vars

\* the 5-bit primary and the 2-bit secondary bank register
Primary(c) == c.bank % 32
Secondary(c) == (c.bank \div 32) % 4

\* C21: in ROM-banking mode the bank mapped at 4000-7FFF is
\* (secondary << 5) | primary and the RAM bank is 0; in RAM-banking mode
\* the ROM bank is the primary and the RAM bank is the secondary.  A write
\* to 2000-3FFF sets the primary and keeps the secondary, a write to
\* 4000-5FFF sets the secondary and keeps the primary, and a mode write
\* keeps both.
C21_Theorem ==
    [][(steps' = steps + 1 /\ ~panicked') =>
         /\ cart'.bank_mode = "Rom" =>
               /\ rom_bank(cart') = Secondary(cart') * 32 + Primary(cart')
               /\ ram_bank(cart') = 0
         /\ cart'.bank_mode = "Ram" =>
               /\ rom_bank(cart') = Primary(cart')
               /\ ram_bank(cart') = Secondary(cart')
         /\ (last'.call = "write8" /\ InRange(last'.addr, 8192, 16383)) =>
               /\ Primary(cart') = (IF last'.val % 32 = 0 THEN 1 ELSE last'.val % 32)
               /\ Secondary(cart') = Secondary(cart)
               /\ cart'.bank_mode = cart.bank_mode
         /\ (last'.call = "write8" /\ InRange(last'.addr, 16384, 24575)) =>
               /\ Secondary(cart') = last'.val % 4
               /\ Primary(cart') = Primary(cart)
               /\ cart'.bank_mode = cart.bank_mode
         /\ (last'.call = "write8" /\ InRange(last'.addr, 24576, 32767)) =>
               /\ Primary(cart') = Primary(cart)
               /\ Secondary(cart') = Secondary(cart)
         /\ (last'.call = "read8" \/ ~InRange(last'.addr, 8192, 32767)) =>
               /\ cart'.bank = cart.bank
               /\ cart'.bank_mode = cart.bank_mode]_vars

\* C21: RAM-banking mode with primary 0x0A and secondary 3, the mode
\* written last
C21_Witness ==
    /\ last.call = "write8" /\ last.addr = 24576 /\ last.val = 1
    /\ cart.bank_mode = "Ram" /\ Primary(cart) = 10 /\ Secondary(cart) = 3
    /\ rom_bank(cart) = 10 /\ ram_bank(cart) = 3

\* C22: a read8 of a cartridge address (0000-7FFF, A000-BFFF) returns a
\* byte and never faults on an out-of-range index, for RomOnly and MBC1,
\* every register state and every ROM and RAM size.
C22_Original ==
    [][(steps' = steps + 1 /\ last'.call = "read8") =>
          (~last'.fault /\ ~panicked' /\ last'.val \in 0..255)]_vars

\* C23: ROM is immutable.  No call changes a ROM byte that is known; a
\* write8 or write16 leaves the rom vector as it is, and leaves a RomOnly
\* cartridge unchanged altogether; a read that indexes inside the rom
\* vector returns the byte of rom at the index the bank selection gives,
\* so the same address under the same bank selection reads the same byte
\* after any sequence of writes.
C23_Theorem ==
    [][(steps' = steps + 1) =>
         /\ \A i \in DOMAIN cart.rom : i \in DOMAIN cart'.rom /\ cart'.rom[i] = cart.rom[i]
         /\ cart'.rom_len = cart.rom_len
         /\ last'.call \in {"write8", "write16"} =>
               /\ cart'.rom = cart.rom
               /\ cart.mbc = "RomOnly" => (cart' = cart /\ ~panicked')
         /\ (last'.call = "read8" /\ ~last'.fault
               /\ (cart.mbc = "RomOnly" \/ InRange(last'.addr, 0, 32767))) =>
               /\ last'.val = cart'.rom[RomCell(cart', last'.addr)]
               /\ RomCell(cart', last'.addr) \in DOMAIN cart.rom =>
                     last'.val = cart.rom[RomCell(cart, last'.addr)]]_vars

\* C23: an Mbc1 with RAM enabled by an earlier write and bank 1 selected
\* has just read 0x4000, and got the byte of rom at 1 * 0x4000
C23_Witness ==
    /\ cart.mbc = "Mbc1" /\ cart.ram_enabled /\ cart.bank = 1 /\ steps = MaxCartOps
    /\ last.call = "read8" /\ last.addr = 16384 /\ ~last.fault
    /\ 16384 \in DOMAIN cart.rom /\ last.val = cart.rom[16384]

\* C24: DIV is the number of whole 256-cycle blocks passed to cycle()
\* since DIV was last restarted, modulo 256, whatever TAC holds, and the
\* DIV clock holds the cycles left over; a write of any value to FF04 sets
\* DIV and that count to 0.
C24_Theorem ==
    /\ timer.div = (last.since_div \div 256) % 256
    /\ timer.div_clock.n = last.since_div % 256
    /\ (last.call = "set" /\ last.a = 65284) =>
          (timer.div = 0 /\ timer.div_clock.n = 0 /\ last.since_div = 0)

\* C24: DIV has wrapped from 0xFF to 0x00 on cycles accumulated over two
\* calls, with the timer enabled
C24_Witness ==
    /\ last.call = "cycle" /\ last.c = 4 /\ last.since_div = 65536
    /\ timer.div = 0 /\ Bit(timer.tac, 2) # 0

\* the divisor the spec gives for TAC's low two bits
C25_N(tac) ==
    CASE tac % 4 = 0 -> 1024 [] tac % 4 = 1 -> 16 [] tac % 4 = 2 -> 64 [] tac % 4 = 3 -> 256

\* C25: with TAC bit 2 set, cycle() increments TIMA once for every N
\* cycles accumulated over the calls, N being 1024, 16, 64 or 256 for TAC
\* low bits 00, 01, 10, 11 (checked where TIMA does not overflow), and
\* keeps the cycles left over; with TAC bit 2 clear, cycle() changes
\* neither TIMA nor the TIMA clock.
C25_Theorem ==
    [][(steps' = steps + 1 /\ last'.call = "cycle") =>
         LET N == C25_N(timer.tac)
             k == (last'.since_tima \div N) - (last.since_tima \div N)
         IN  IF Bit(timer.tac, 2) = 0
             THEN timer'.tima = timer.tima /\ timer'.tma_clock = timer.tma_clock
             ELSE /\ timer'.tma_clock.n = last'.since_tima % N
                  /\ timer.tima + k <= 255 => timer'.tima = timer.tima + k]_vars

\* C25: with clock select 01, 4 and then 12 cycles made one TIMA
\* increment, from the reloaded 0x80 to 0x81
C25_Witness ==
    /\ last.call = "cycle" /\ last.c = 12 /\ last.since_tima = 16
    /\ timer.tac = 5 /\ timer.tima = 129

C27_Theorem ==
    [][(steps' = steps + 1 /\ last'.call = "set" /\ last'.a = 65287) =>
         /\ timer'.tac = last'.v
         /\ timer'.tma = timer.tma /\ timer'.div = timer.div
         /\ timer'.div_clock = timer.div_clock /\ if_' = if_
         /\ IF last'.v % 4 # timer.tac % 4
            THEN /\ timer'.tma_clock = [period |-> C25_N(last'.v), n |-> 0]
                 /\ timer'.tima = timer.tma
            ELSE /\ timer'.tma_clock = timer.tma_clock
                 /\ timer'.tima = timer.tima]_vars

\* C27: the timer ran enabled with select 01 and 12 cycles in its clock
\* and TIMA away from TMA; writing select 10 emptied the clock, set the
\* divisor to 64 and loaded TIMA from TMA
C27_Witness ==
    /\ last.call = "set" /\ last.a = 65287 /\ last.v = 6
    /\ last.tac0 = 5 /\ last.n0 = 12
    /\ timer.tma_clock = [period |-> 64, n |-> 0]
    /\ timer.tma = 7 /\ timer.tima = 7 /\ timer.tac = 6

\* C28: a cycle() call that finds LCDC bit 7 clear returns 0 and does not
\* step LY, the mode or STAT (if the PPU was running, LY and the pixel
\* counter are set to 0 and the PPU stops); a cycle() call that finds bit
\* 7 set on a stopped PPU restarts it in OamScan and the program goes on.
C28_Original ==
    [][(steps' = steps + 1 /\ last'.call = "cycle") =>
         IF ~lcd_display_enable(ppu)
         THEN /\ last'.ret = 0 /\ ~panicked'
              /\ ppu'.ly = (IF ppu.ldc_on THEN 0 ELSE ppu.ly)
              /\ ppu'.x = (IF ppu.ldc_on THEN 0 ELSE ppu.x)
              /\ ppu'.mode = ppu.mode /\ ppu'.stat = ppu.stat
              /\ ~ppu'.ldc_on
         ELSE ~ppu.ldc_on => (~panicked' /\ ppu'.ldc_on /\ ppu'.mode = "OamScan")]_vars

\* the mode and LY after one cycle() of a running PPU, as the frame goes:
\* OamScan, Drawing, HBlank on each of the lines 0..143 with LY
\* incremented after HBlank, VBlank on the lines 144..153, then OamScan
\* at LY = 0
FrameStep(m, ly, m2, ly2) ==
    \/ m2 = m /\ ly2 = ly
    \/ m = "OamScan" /\ m2 = "Drawing" /\ ly2 = ly
    \/ m = "Drawing" /\ m2 = "HBlank" /\ ly2 = ly
    \/ m = "HBlank" /\ m2 = "OamScan" /\ ly2 = ly + 1 /\ ly2 <= 143
    \/ m = "HBlank" /\ m2 = "VBlank" /\ ly = 143 /\ ly2 = 144
    \/ m = "VBlank" /\ m2 = "VBlank" /\ ly2 = ly + 1 /\ ly2 <= 153
    \/ m = "VBlank" /\ m2 = "OamScan" /\ ly = 153 /\ ly2 = 0

\* C29: with the LCD enabled every cycle() call completes and moves the
\* mode and LY one step along the frame, LY staying in 0..153.
C29_Original ==
    [][(steps' = steps + 1 /\ last'.call = "cycle" /\ lcd_display_enable(ppu)) =>
         /\ ~panicked'
         /\ ppu'.ly \in 0..153
         /\ FrameStep(IF ppu.ldc_on THEN ppu.mode ELSE "OamScan", ppu.ly,
                      ppu'.mode, ppu'.ly)]_vars

\* C30: a cycle() call of a running PPU completes, and sets IF bit 0 iff
\* it entered VBlank and IF bit 1 iff it entered HBlank, VBlank or OamScan
\* with STAT bit 3, 4 or 5 set, or updated LY to LYC with STAT bit 6 set;
\* the other IF bits stay as they were.
C30_Original ==
    [][(steps' = steps + 1 /\ last'.call = "cycle" /\ lcd_display_enable(ppu)) =>
         LET entered(m) == ppu'.mode = m /\ ppu.mode # m
             vblank == entered("VBlank")
             lcdstat == \/ entered("HBlank") /\ Bit(ppu.stat, 3) = 1
                        \/ entered("VBlank") /\ Bit(ppu.stat, 4) = 1
                        \/ entered("OamScan") /\ Bit(ppu.stat, 5) = 1
                        \/ ppu'.ly # ppu.ly /\ ppu'.ly = ppu.lyc /\ Bit(ppu.stat, 6) = 1
         IN  /\ ~panicked'
             /\ Bit(if_', 0) = (IF vblank THEN 1 ELSE Bit(if_, 0))
             /\ Bit(if_', 1) = (IF lcdstat THEN 1 ELSE Bit(if_, 1))
             /\ \A i \in 2..7 : Bit(if_', i) = Bit(if_, i)]_vars

\* the region is closed to the CPU in this mode: OAM during OamScan and
\* Drawing, VRAM during Drawing
Gated(mode, addr) ==
    \/ InRange(addr, 65024, 65183) /\ mode \in {"OamScan", "Drawing"}
    \/ InRange(addr, 32768, 40959) /\ mode = "Drawing"

\* C31: while the PPU mode closes a region, a read8 of it returns 0xFF and
\* a write8 to it leaves VRAM and OAM unchanged; otherwise a write8 to
\* VRAM or OAM stores the byte and a read8 returns the byte stored.
C31_Original ==
    [][(steps' = steps + 1 /\ last'.call \in {"read8", "write8"}
          /\ (InRange(last'.addr, 32768, 40959) \/ InRange(last'.addr, 65024, 65183))) =>
         IF Gated(ppu.mode, last'.addr)
         THEN /\ last'.call = "read8" => last'.ret = 255
              /\ last'.call = "write8" =>
                    \A a \in PpuAddrs : Ppu_read8(ppu', a) = Ppu_read8(ppu, a)
         ELSE /\ last'.call = "write8" => Ppu_read8(ppu', last'.addr) = last'.val
              /\ last'.call = "read8" => last'.ret = Ppu_read8(ppu, last'.addr)]_vars

\* C33: the FIFO holds between 0 and 16 values, head = (tail + size) mod
\* 16, and the values from tail on are those pushed and not yet popped
\* since the last clear, oldest first; a pop returns the oldest of them; a
\* push on a full FIFO and a pop on an empty FIFO fail and leave the FIFO
\* as it was.
C33_Theorem ==
    [][(steps' = steps + 1) =>
         LET f == ppu.fetcher.fifo
             g == ppu'.fetcher.fifo
         IN  /\ g.size \in 0..16 /\ g.tail \in 0..15 /\ g.head = (g.tail + g.size) % 16
             /\ g.size = Len(last'.queue)
             /\ \A i \in 1..g.size : g.data[(g.tail + i - 1) % 16] = last'.queue[i]
             /\ (last'.call = "pop" /\ f.size > 0) =>
                   (~panicked' /\ last'.ret = Head(last.queue) /\ g.size = f.size - 1)
             /\ (last'.call = "push" /\ f.size < 16) =>
                   (~panicked' /\ last'.queue = Append(last.queue, last'.val))
             /\ (last'.call = "push" /\ f.size = 16) => (panicked' /\ g = f)
             /\ (last'.call = "pop" /\ f.size = 0) => (panicked' /\ g = f)
             /\ last'.call = "clear" => g.size = 0]_vars

\* C33: two values pushed across the end of the ring have come out in the
\* order they went in, and the FIFO is empty again
C33_Witness ==
    /\ last.call = "pop" /\ last.ret = 2 /\ ~panicked /\ steps = 4
    /\ ppu.fetcher.fifo.size = 0 /\ ppu.fetcher.fifo.tail = 1
    /\ ppu.fetcher.fifo.data[15] = 1 /\ ppu.fetcher.fifo.data[0] = 2

\* C38: every VRAM index the fetcher computes, for the tile-map read and
\* for the two tile-data reads, lies inside the array: it is below 0x2000
\* and the read does not fail.
C38_Original ==
    (last.call = "tick" /\ last.index # -1) => (last.index < VRAM_SIZE /\ ~panicked)

\* C32: every second tick() moves the fetcher one state on along
\* ReadTileId -> ReadTileData0 -> ReadTileData1 -> PushToFifo -> ReadTileId,
\* the ticks between leave the state alone, only PushToFifo can be stayed
\* in, and leaving PushToFifo pushes 8 pixels and adds 1 to the tile index.
C32_Original ==
    [][(steps' = steps + 1 /\ last'.call = "tick") =>
         LET f == ppu.fetcher
             g == ppu'.fetcher
         IN  /\ ~panicked'
             /\ f.ticks = 0 => (g.ticks = 1 /\ g.state = f.state)
             /\ f.ticks = 1 =>
                   /\ g.ticks = 0
                   /\ f.state = "ReadTileId" => g.state = "ReadTileData0"
                   /\ f.state = "ReadTileData0" => g.state = "ReadTileData1"
                   /\ f.state = "ReadTileData1" => g.state = "PushToFifo"
                   /\ f.state = "PushToFifo" =>
                         \/ g.state = "PushToFifo" /\ g.fifo = f.fifo
                                /\ g.tile_index = f.tile_index
                         \/ g.state = "ReadTileId" /\ g.fifo.size = f.fifo.size + 8
                                /\ g.tile_index = f.tile_index + 1]_vars

\* C37: PushToFifo, the only state in which the fetcher pushes, is never
\* entered: the case the claim is about does not occur
C37_Unreached == ppu.fetcher.state # "PushToFifo" /\ ppu.fetcher.fifo.size = 0

\* C34: a cycle() entered with IME clear dispatches no interrupt, whatever
\* IE and IF hold, and leaves IF as it was; a dispatch leaves IME clear;
\* and IME goes from clear to set only in a cycle() that executed EI or
\* RETI.
C34_Theorem ==
    [][StepCpu =>
         /\ ~ime => (~last'.serviced /\ if_' = if_ /\ last'.int_cycles = 0)
         /\ last'.serviced => ~last'.int_ime
         /\ (last'.serviced /\ ime') => (last'.fetched /\ last'.op \in {251, 217})
         /\ (~ime /\ ime') => (last'.fetched /\ last'.op \in {251, 217})]_vars

\* C34: after a dispatch (the stack holds one return address) a cycle() ran
\* with IME clear while an enabled interrupt was pending, and the bit is
\* still set in IF
C34_Witness ==
    /\ last.call = "cycle" /\ ~last.ime0 /\ ~last.serviced /\ last.fetched
    /\ last.op = 0 /\ reg.sp = 65532 /\ ~ime
    /\ And8(last.ie0, last.if0) # 0 /\ if_ = last.if0 /\ if_ = 2

\* C35: with SP pointing into RAM, stack_push(v) leaves SP lower by 2 and v
\* little-endian at SP, and stack_pop() after it returns v with SP back
\* where it was; a RET executed right after a CALL a16 leaves PC at the
\* address after the CALL, with SP as before the CALL; a RETI executed
\* after an interrupt dispatch, in the same cycle() or in the next one
\* after a NOP, leaves PC at the interrupted PC, with SP as before the
\* dispatch and IME set.
C35_PushPop ==
    \A v \in {0, 4660, 65535} :
       (IsRam(W16(reg.sp + 65534)) /\ IsRam(W16(reg.sp + 65535))) =>
          LET s == stack_push(Machine, v)
              pp == stack_pop(s)
          IN  /\ s.reg.sp = W16(reg.sp + 65534)
              /\ Mmu_read8(s, s.reg.sp) = Lo(v)
              /\ Mmu_read8(s, W16(s.reg.sp + 1)) = Hi(v)
              /\ pp.val = v /\ pp.st.reg.sp = reg.sp

C35_CallRet ==
    (StepCpu /\ last.fetched /\ last.op = 205
       /\ last'.fetched /\ last'.op = 201 /\ ~last'.serviced) =>
         (reg'.pc = W16(last.fetch_pc + 3) /\ reg'.sp = last.int_sp)

C35_DispatchReti ==
    /\ (StepCpu /\ last'.serviced /\ last'.fetched /\ last'.op = 217) =>
          (reg'.pc = last'.pc0 /\ reg'.sp = last'.sp0 /\ ime')
    /\ (StepCpu /\ last.serviced /\ last.fetched /\ last.op = 0
          /\ ~last'.serviced /\ last'.fetched /\ last'.op = 217) =>
          (reg'.pc = last.pc0 /\ reg'.sp = last.sp0 /\ ime')

C35_Original == [][C35_PushPop /\ C35_CallRet /\ C35_DispatchReti]_vars

\* C36: for all 8-bit A and val and either carry-in c, SBC (alu_sbc8 and
\* alu_sbcr8) leaves (A - val - c) mod 256 in A, Carry iff A < val + c,
\* Half-Carry iff (A & 0xF) < (val & 0xF) + c, Zero iff the result is 0,
\* and Subtract set; CP (alu_cp8) leaves A as it was and F as SUB of the
\* same operand leaves it: Carry iff A < val.
C36_Theorem ==
    LET c == Bit(last.f0, 4)
        r0 == [reg EXCEPT !.a = last.a0, !.f = last.f0]
    IN  /\ last.call \in {"alu_sbc8", "alu_sbcr8"} =>
              /\ reg.a = (last.a0 + 512 - last.val - c) % 256
              /\ cf(reg) <=> (last.a0 < last.val + c)
              /\ hf(reg) <=> ((last.a0 % 16) < (last.val % 16) + c)
              /\ zf(reg) <=> (reg.a = 0)
              /\ nf(reg)
        /\ last.call = "alu_cp8" =>
              /\ reg.a = last.a0
              /\ reg.f = alu_sub8(r0, last.val).f
              /\ cf(reg) <=> (last.a0 < last.val)
              /\ hf(reg) <=> ((last.a0 % 16) < (last.val % 16))
              /\ zf(reg) <=> (last.a0 = last.val)
              /\ nf(reg)

\* C36: a subtraction of 0xFF with the carry set, which borrows twice over,
\* has been made: 0x10 - 0xFF - 1 leaves 0x10 with Carry and Half-Carry
C36_Witness ==
    /\ last.call = "alu_sbc8" /\ last.a0 = 16 /\ last.val = 255 /\ last.f0 = 16
    /\ reg.a = 16 /\ cf(reg) /\ hf(reg) /\ ~zf(reg) /\ nf(reg)

\* C40: after any sequence of Timer::set and Timer::cycle calls the TIMA
\* clock's period is the divisor that the low two bits of the current TAC
\* select (1024, 16, 64, 256), the DIV clock's period is 256, and each
\* clock's count of left-over cycles is below its period.
C40_Theorem ==
    /\ timer.tma_clock.period = C25_N(timer.tac)
    /\ timer.tma_clock.n >= 0 /\ timer.tma_clock.n < timer.tma_clock.period
    /\ timer.div_clock.period = 256
    /\ timer.div_clock.n >= 0 /\ timer.div_clock.n < 256

\* C40: TAC selects the divisor 64 and cycle() has left 12 cycles over in
\* both clocks
C40_Witness ==
    /\ last.call = "cycle" /\ timer.tac = 6 /\ timer.tma_clock.period = 64
    /\ timer.tma_clock.n = 12 /\ timer.div_clock.n = 12

\* C39: with no register write in between, the cycle() calls made so far
\* leave DIV, TIMA, both clocks and IF as one cycle() call of their total
\* leaves them, and make as many Timer requests; so two sequences of the
\* same total end alike.
C39_Theorem ==
    last.total > 0 =>
       LET r == Timer_cycle(last.timer0, last.if0, last.total)
       IN  /\ timer = r.timer
           /\ if_ = r.if_
           /\ last.requests = Timer_requests(last.timer0, last.total)

\* C39: three calls, of 1, 15 and 240 cycles in some order ending with the
\* 240, have been made over a TIMA that one call of 256 cycles overflows 8
\* times
C39_Witness ==
    /\ steps = 3 /\ last.total = 256 /\ last.c = 240 /\ last.requests = 8
    /\ last.timer0.tima = 255 /\ last.timer0.tma = 254 /\ last.timer0.tac = 5
    /\ last.timer0.tma_clock.n = 0 /\ timer.tma_clock.n = 0
    /\ Bit(if_, 2) = 1 /\ timer.tima = 255 /\ timer.div = 1

====
